---- MODULE Spec2Model ----
(***************************************************************************)
(* A model of the sleep-stage inference pipeline of LucidifyWeb: the       *)
(* Viterbi smoother of sleep_bundle.js, the LightGBM dump evaluator        *)
(* (yasa_lgbm.js) and the linear classifier (sleep_stage_features.js).     *)
(*                                                                         *)
(* Numbers.  Probabilities of the smoother are kept by their natural       *)
(* logarithm in milli-nats (round(1000 * ln p)); ln 0 is NegInf.  The      *)
(* smoother only ever takes log(max(p, eps)) of a probability, adds and    *)
(* compares, so it is computed exactly on this representation.             *)
(***************************************************************************)
EXTENDS Integers, Sequences, FiniteSets, TLC

VARIABLES
    \* ---- Viterbi smoother (sleep_bundle.js) ----
    probs,        \* the emission rows handed to the smoother, Array[T] of Array[5]
    stages,       \* the unsmoothed stage list of the same staging run
    vpc,          \* "input" | "returned" | "threw" | "drawn"
    labels,       \* the labels argument of the last call
    path,         \* what viterbiSmoothSleepStages returned
    stagesToDraw  \* what renderHypnogramFromSelection handed to the renderer

vvars == <<probs, stages, vpc, labels, path, stagesToDraw>>

VARIABLES
    \* ---- classifier backends (yasa_lgbm.js, sleep_stage_features.js) ----
    call,         \* which entry point the run exercises: "node" | "tree" | "linear"
    cpc,          \* "input" | "constructed" | "loaded" | "done" | "threw"
    xrow,         \* tree backend: one feature row x of X
    node,         \* "node": the tree node handed to evalTreeNode
    dump,         \* "tree": the dump_model JSON (tree_info, num_class, feature_names)
    lgbm,         \* "tree": the constructed LGBMDumpModel
    lmodel,       \* "linear": the model JSON (labels, feature_order, means, stds, W, b)
    feats,        \* "linear": featuresByName
    cout          \* what the call returned, or the error it threw

cvars == <<call, cpc, xrow, node, dump, lgbm, lmodel, feats, cout>>

VARIABLES
    \* ---- EDF decoder and encoder (edf_parser.js, renderers.js) ----
    epc,          \* "view" | "file" | "parsed" | "threw"
    opts,         \* the options handed to makeEdfFromView (NoOpts for a file read from disk)
    buf,          \* the bytes of the EDF buffer
    rec           \* what parseEdf returned, or the error it threw

evars == <<epc, opts, buf, rec>>

VARIABLES
    \* ---- signal processing and staging (yasa_dsp.js, yasa_features.js, ...) ----
    dspFn,        \* the function the run calls
    dspArg,       \* its arguments
    dspRet,       \* what it returned or threw
    dpc           \* "input" | "done"

dvars == <<dspFn, dspArg, dspRet, dpc>>

VARIABLES
    \* ---- the staging pipeline of renderHypnogramFromSelection (sleep_bundle.js) ----
    heap,         \* the arrays that exist: heap[id] is the contents of array id
    ppc,          \* "start" | "merged" | "normalized" | "sliced" | "staged" | "smoothed" | "threw"
    penv          \* the locals of the run: references into the heap, and its inputs

pvars == <<heap, ppc, penv>>

VARIABLES
    \* ---- asynchronous callers: staging runs, the segment loader, hypnogram renders ----
    stager,       \* LucidifySleepStage / LucidifyYasaSleepStage: module promise, loads, runs
    loader,       \* a LargeEdfSegmentLoader: its fields and the reads in flight
    renderer      \* the hypnogram section: selection, renders in flight, canvas, overlay

avars == <<stager, loader, renderer>>

(***************************************************************************)
(* Bounds of the model.                                                    *)
(***************************************************************************)
MaxT == 3        \* longest emission sequence
MaxK == 6        \* longest labels argument
MaxTrees == 3    \* most trees of a dump
MaxRow == 2      \* longest feature row of the tree backend
MaxFeat == 3     \* most features of a linear model

Max2(a, b) == IF a >= b THEN a ELSE b

\* placeholders of the variables a run does not use
NoNode == [leaf_value |-> 0]
NoDump == [tree_info |-> << >>, num_class |-> 0, feature_names |-> << >>]
NoModel == [format |-> "", labels |-> << >>, feature_order |-> << >>,
            means |-> << >>, stds |-> << >>, W |-> << >>, b |-> << >>]
NoFeats == << >>
NoOut == [threw |-> FALSE]


NoOpts == [channels |-> << >>, channelIndices |-> << >>, viewStartSec |-> 0, viewDurationSec |-> 0]

vars == <<vvars, cvars, evars, dvars, pvars, avars>>

\* the variables of the part a specification does not exercise stay put
VIdle ==
    /\ probs = << >> /\ stages = << >> /\ vpc = "input"
    /\ labels = << >> /\ path = << >> /\ stagesToDraw = << >>

CIdle ==
    /\ call = "none" /\ cpc = "input" /\ xrow = << >> /\ node = NoNode /\ dump = NoDump
    /\ lgbm = NoDump /\ lmodel = NoModel /\ feats = NoFeats /\ cout = NoOut

EIdle ==
    /\ epc = "none" /\ opts = NoOpts /\ buf = << >> /\ rec = NoOut

DIdle ==
    /\ dspFn = "none" /\ dspArg = << >> /\ dspRet = NoOut /\ dpc = "input"

PIdle ==
    /\ heap = << >> /\ ppc = "none" /\ penv = << >>

AIdle ==
    /\ stager = << >> /\ loader = << >> /\ renderer = << >>


(***************************************************************************)
(* viterbiSmoothSleepStages: constants.                                    *)
(***************************************************************************)
NegInf == -100000000     \* ln 0
NaNScore == 1            \* undefined + number: no log-score is positive
LogEps == -27631         \* ln 1e-12

NumStates == 5

StageLabels == <<"W", "N1", "N2", "N3", "REM">>

\* ln of the transition matrix A, rows and columns W, N1, N2, N3, REM
A ==
    << <<   -62, -2996, -4711, -7601, -7601 >>,
       << -2526,  -174, -2659, -5298, -5298 >>,
       << -3912, -2526,  -151, -3507, -4605 >>,
       << -5298, -4605, -2526,  -105, -5298 >>,
       << -2813, -3507, -2526, -5298,  -192 >> >>

\* ln of the initial-state prior [0.90, 0.08, 0.02, 0.0, 0.0]
pi == << -105, -2526, -3912, NegInf, NegInf >>

\* Math.log(Math.max(p, eps))
LogClamp(p) == Max2(p, LogEps)

\* logA[j][k]
logA(j, k) == LogClamp(A[j][k])

logPi_unclamped(k) == IF k \in 1..NumStates THEN pi[k] ELSE NaNScore

\* logPi[k]; undefined beyond the five entries of pi
logPi(k) == IF k \in 1..NumStates THEN LogClamp(pi[k]) ELSE NaNScore

\* probs[t][k] ?? 0
ProbAt(row, k) == IF k \in DOMAIN row THEN row[k] ELSE NegInf

\* a + b of two log-scores, NaN absorbing
AddScore(a, b) == IF a = NaNScore \/ b = NaNScore THEN NaNScore ELSE a + b

\* a > b of two log-scores: false when either is NaN
Gt(a, b) == a # NaNScore /\ b # NaNScore /\ a > b

(***************************************************************************)
(* viterbiSmoothSleepStages: the dynamic programme.                        *)
(***************************************************************************)
TransScore_swapped(prev, j, k) == AddScore(prev[j], logA(k, j))

\* v = dp[t - 1][j] + logA[j][k]
TransScore(prev, j, k) == AddScore(prev[j], logA(j, k))

\* the inner loop over j: bestVal starts at -Infinity, bestJ at state 0
RECURSIVE BestLoop(_, _, _, _, _, _)
BestLoop(prev, k, j, K, bestVal, bestJ) ==
    IF j > K THEN [val |-> bestVal, j |-> bestJ]
    ELSE LET v == TransScore(prev, j, k)
         IN  IF Gt(v, bestVal)
             THEN BestLoop(prev, k, j + 1, K, v, j)
             ELSE BestLoop(prev, k, j + 1, K, bestVal, bestJ)

\* dp[0][k] and back[0][k]
DpFirst(P, K) == [k \in 1..K |-> AddScore(logPi(k), LogClamp(ProbAt(P[1], k)))]

\* dp[0..t-1] and back[0..t-1] (rows 1..t here)
RECURSIVE Forward(_, _, _)
Forward(P, K, t) ==
    IF t = 1
    THEN [dp |-> << DpFirst(P, K) >>, back |-> << [k \in 1..K |-> 1] >>]
    ELSE LET pre  == Forward(P, K, t - 1)
             prev == pre.dp[t - 1]
             best == [k \in 1..K |-> BestLoop(prev, k, 1, K, NegInf, 1)]
         IN  [dp   |-> Append(pre.dp,
                         [k \in 1..K |-> AddScore(best[k].val, LogClamp(ProbAt(P[t], k)))]),
              back |-> Append(pre.back, [k \in 1..K |-> best[k].j])]

\* Termination: the first k attaining the largest dp[T - 1][k]
RECURSIVE TermLoop(_, _, _, _, _)
TermLoop(row, k, K, bestLast, lastK) ==
    IF k > K THEN lastK
    ELSE IF Gt(row[k], bestLast)
         THEN TermLoop(row, k + 1, K, row[k], k)
         ELSE TermLoop(row, k + 1, K, bestLast, lastK)

\* Backtrack: path[t] = lastK; lastK = back[t][lastK], for t = T-1 down to 0
RECURSIVE Backtrack(_, _, _)
Backtrack(back, t, lastK) ==
    IF t = 0 THEN << >>
    ELSE Append(Backtrack(back, t - 1, back[t][lastK]), lastK)

EmptyInput_onlyT(T, K) == T = 0

\* if (!T || !K) return []
EmptyInput(T, K) == T = 0 \/ K = 0

\* logA has five rows: logA[j][k] with j >= 5 reads a property of undefined
ViterbiThrows(T, K) == T >= 2 /\ K > NumStates

\* the state indices of the returned path (T >= 1, K >= 1, no throw)
ViterbiStates(P, K) ==
    LET T   == Len(P)
        fwd == Forward(P, K, T)
        row == fwd.dp[T]
    IN  Backtrack(fwd.back, T, TermLoop(row, 2, K, row[1], 1))

\* the whole function: what it returns, or that it threw
viterbiSmoothSleepStages(P, L) ==
    LET T == Len(P)
        K == Len(L)
    IN  IF EmptyInput(T, K) THEN [threw |-> FALSE, path |-> << >>]
        ELSE IF ViterbiThrows(T, K) THEN [threw |-> TRUE, path |-> << >>]
        \* past the guard with no labels every loop over k is empty and
        \* path[t] = labels[lastK] reads undefined T times
        ELSE IF K = 0 THEN [threw |-> FALSE, path |-> [t \in 1..T |-> "undefined"]]
        ELSE LET st == ViterbiStates(P, K)
             IN  [threw |-> FALSE, path |-> [t \in 1..T |-> L[st[t]]]]

(***************************************************************************)
(* The emission rows the model draws from.                                 *)
(***************************************************************************)
States == 1..NumStates

\* probability 1 on s, exactly 0 elsewhere (a saturated softmax)
OneHot(s) == [k \in States |-> IF k = s THEN 0 ELSE NegInf]

\* 0.96 on s, 0.01 elsewhere
Soft(s) == [k \in States |-> IF k = s THEN -41 ELSE -4605]

\* about 1 on s, 1e-13 on W, exactly 0 elsewhere
Leak(s) == [k \in States |-> IF k = s THEN 0 ELSE IF k = 1 THEN -29934 ELSE NegInf]

\* one half on each of a and b
Split(a, b) == [k \in States |-> IF k \in {a, b} THEN -693 ELSE NegInf]

\* one fifth everywhere
Uniform == [k \in States |-> -1609]

EmissionRows ==
    {OneHot(s) : s \in States} \cup {Soft(4), Leak(4), Split(1, 5), Split(3, 4), Uniform}

\* the index of the first largest entry of a row (the classifier's argmax)
FirstArgmax(row) ==
    CHOOSE k \in DOMAIN row :
        /\ \A j \in DOMAIN row : row[j] <= row[k]
        /\ \A j \in DOMAIN row : j < k => row[j] < row[k]

ExtraLabels == <<"X6", "X7", "X8">>

\* a labels argument of length K: the five stage names, then further names
LabelsOfLen(K) ==
    [k \in 1..K |-> IF k <= NumStates THEN StageLabels[k] ELSE ExtraLabels[k - NumStates]]

(***************************************************************************)
(* The smoother's specification: an input is drawn, then the function is   *)
(* called directly (any labels argument) or from the render handler.       *)
(***************************************************************************)
VInit ==
    /\ probs \in UNION {[1..n -> EmissionRows] : n \in 0..MaxT}
    /\ stages = [t \in 1..Len(probs) |-> StageLabels[FirstArgmax(probs[t])]]
    /\ vpc = "input"
    /\ labels = << >>
    /\ path = << >>
    /\ stagesToDraw = << >>
    /\ CIdle /\ EIdle /\ DIdle /\ PIdle /\ AIdle

\* viterbiSmoothSleepStages(probs, labels)
CallViterbi ==
    /\ vpc = "input"
    /\ \E K \in 0..MaxK :
         LET L == LabelsOfLen(K)
             r == viterbiSmoothSleepStages(probs, L)
         IN  /\ labels' = L
             /\ path' = r.path
             /\ vpc' = IF r.threw THEN "threw" ELSE "returned"
    /\ UNCHANGED <<probs, stages, stagesToDraw>>
    /\ UNCHANGED <<cvars, evars, dvars, pvars, avars>>

\* renderHypnogramFromSelection, from the HMM checkbox to the draw
RenderSmoothing ==
    /\ vpc = "input"
    /\ \E hmmChecked \in BOOLEAN :
         IF hmmChecked /\ Len(probs) = Len(stages)
         THEN LET r == viterbiSmoothSleepStages(probs, StageLabels)
              IN  /\ labels' = StageLabels
                  /\ path' = r.path
                  /\ stagesToDraw' = r.path
                  /\ vpc' = IF r.threw THEN "threw" ELSE "drawn"
         ELSE /\ stagesToDraw' = stages
              /\ vpc' = "drawn"
              /\ UNCHANGED <<labels, path>>
    /\ UNCHANGED <<probs, stages>>
    /\ UNCHANGED <<cvars, evars, dvars, pvars, avars>>

VNext == CallViterbi \/ RenderSmoothing


(***************************************************************************)
(* Claims about the smoother.                                              *)
(***************************************************************************)
Range(f) == {f[i] : i \in DOMAIN f}

\* the state index of a stage label
StateOf(l) == CHOOSE k \in States : StageLabels[k] = l

\* the score of a state path s_1..s_t: log(max(pi[s_1],eps))
\* + sum log(max(probs[u][s_u],eps)) + sum log(max(A[s_(u-1)][s_u],eps))
RECURSIVE PathScore(_, _, _)
PathScore(P, s, t) ==
    IF t = 1 THEN LogClamp(pi[s[1]]) + LogClamp(P[1][s[1]])
    ELSE PathScore(P, s, t - 1) + LogClamp(A[s[t - 1]][s[t]]) + LogClamp(P[t][s[t]])

Smoothed == vpc = "returned" /\ Len(labels) = NumStates /\ Len(probs) >= 1

\* C1: for T >= 1 and the five labels, the returned path's score is maximal
\* among all 5^T state paths (a brute-force search finds nothing better).
C1_ViterbiOptimal ==
    Smoothed =>
        LET T == Len(probs)
            s == [t \in 1..T |-> StateOf(path[t])]
        IN  \A q \in [1..T -> States] : PathScore(probs, q, T) <= PathScore(probs, s, T)

\* a three-step input on which smoothing changed the per-step argmax labels
C1_Witness == Smoothed /\ Len(probs) = 3 /\ path # stages

\* pi[k] * probs[0][k], as a logarithm: zero times anything is zero
LnProduct(a, b) == IF a = NegInf \/ b = NegInf THEN NegInf ELSE a + b

\* the indices k at which pi[k] * row[k] is largest
ArgmaxPrior(row) ==
    {k \in States : \A j \in States : LnProduct(pi[j], row[j]) <= LnProduct(pi[k], row[k])}

\* C2: for a single time step the returned label is the one at
\* argmax_k(pi[k] * probs[0][k]).
C2_SingleStepArgmax ==
    (Smoothed /\ Len(probs) = 1) => StateOf(path[1]) \in ArgmaxPrior(probs[1])

OneHotRows == {OneHot(s) : s \in States}

AllOneHot == \A t \in DOMAIN probs : probs[t] \in OneHotRows

\* C3 as stated: whenever every emission row puts all its mass on one state,
\* the smoothed path equals the per-step argmax sequence.
C3_OneHotPathIsArgmax == (Smoothed /\ AllOneHot) => path = stages

\* C3 as amended: with one-hot rows the smoothed path equals the per-step
\* argmax sequence when the same state is favoured at every step (N3 and REM
\* included) or the first favoured state has a non-zero prior (W, N1, N2).
C3_OneHotPathIsArgmaxAmended ==
    (/\ Smoothed
     /\ AllOneHot
     /\ \/ \A t \in DOMAIN probs : probs[t] = probs[1]
        \/ FirstArgmax(probs[1]) \in {1, 2, 3})
    => path = stages

\* three steps that all favour REM, whose prior is zero
C3_Witness ==
    Smoothed /\ probs = <<OneHot(5), OneHot(5), OneHot(5)>> /\ path = <<"REM", "REM", "REM">>

Called == vpc \in {"returned", "threw"}

\* C4 as stated: an empty path for T = 0 or K = 0; otherwise exactly T entries,
\* each an element of labels; and the render draws as many epochs as the
\* unsmoothed stage list has.
C4_PathShape ==
    /\ (Called /\ (Len(probs) = 0 \/ Len(labels) = 0)) => (vpc = "returned" /\ path = << >>)
    /\ (Called /\ Len(probs) >= 1 /\ Len(labels) >= 1) =>
          (vpc = "returned" /\ Len(path) = Len(probs) /\ Range(path) \subseteq Range(labels))
    /\ vpc = "drawn" => Len(stagesToDraw) = Len(stages)

\* C4 as amended: the T entries are returned when K <= 5 or T = 1; with more
\* than five labels and T >= 2 the call throws (the transition matrix is 5x5).
C4_PathShapeAmended ==
    /\ (Called /\ (Len(probs) = 0 \/ Len(labels) = 0)) => (vpc = "returned" /\ path = << >>)
    /\ (Called /\ Len(probs) >= 1 /\ Len(labels) >= 1) =>
          IF Len(labels) <= NumStates \/ Len(probs) = 1
          THEN /\ vpc = "returned"
               /\ Len(path) = Len(probs)
               /\ Range(path) \subseteq Range(labels)
          ELSE vpc = "threw"
    /\ vpc = "drawn" => Len(stagesToDraw) = Len(stages)

\* a smoothed render of three epochs that differs from the unsmoothed list
C4_Witness ==
    vpc = "drawn" /\ Len(stagesToDraw) = 3 /\ stagesToDraw = path /\ stagesToDraw # stages

(***************************************************************************)
(* JavaScript numbers of the classifiers: a finite number (an integer      *)
(* here), NaN, +Infinity, -Infinity, or undefined (an absent element).     *)
(***************************************************************************)
Num(n) == [tag |-> "num", v |-> n]
NaN == [tag |-> "nan", v |-> 0]
PosInf == [tag |-> "pinf", v |-> 0]
NegInfV == [tag |-> "ninf", v |-> 0]
Undef == [tag |-> "undef", v |-> 0]

\* Number.isNaN(v): no coercion, so undefined is not NaN
NumberIsNaN(v) == v.tag = "nan"

\* Number.isFinite(v)
NumberIsFinite(v) == v.tag = "num"

\* a < that also holds at equality
JsLt_orEqual(v, thr) == (v.tag = "num" /\ v.v <= thr) \/ v.tag = "ninf"

\* v <= thr, v < thr, v > thr, v >= thr, v === thr against a finite threshold;
\* NaN and undefined (which converts to NaN) compare false
JsLe(v, thr) == (v.tag = "num" /\ v.v <= thr) \/ v.tag = "ninf"
JsLt(v, thr) == (v.tag = "num" /\ v.v < thr) \/ v.tag = "ninf"
JsGt(v, thr) == (v.tag = "num" /\ v.v > thr) \/ v.tag = "pinf"
JsGe(v, thr) == (v.tag = "num" /\ v.v >= thr) \/ v.tag = "pinf"
JsEq(v, thr) == v.tag = "num" /\ v.v = thr

\* a + b and a * b where b is finite or undefined and a is finite or NaN
VAdd(a, b) == IF a.tag = "num" /\ b.tag = "num" THEN Num(a.v + b.v) ELSE NaN
VMul(a, b) == IF a.tag = "num" /\ b.tag = "num" THEN Num(a.v * b.v) ELSE NaN

\* a > b
VGt(a, b) == a.tag = "num" /\ b.tag = "num" /\ a.v > b.v

\* arr[i] of a JavaScript array kept as a sequence (i counts from 0)
At(arr, i) == IF i + 1 \in DOMAIN arr THEN arr[i + 1] ELSE Undef

\* the same for an array of finite numbers
AtNum(arr, i) == IF i + 1 \in DOMAIN arr THEN Num(arr[i + 1]) ELSE Undef

(***************************************************************************)
(* yasa_lgbm.js: evalTreeNode.                                             *)
(***************************************************************************)
IsLeaf(n) == "leaf_value" \in DOMAIN n

\* node.decision_type || "<="
DecisionOf(n) ==
    IF "decision_type" \in DOMAIN n /\ n.decision_type # "" THEN n.decision_type ELSE "<="

\* node.default_left !== undefined ? node.default_left : true
DefaultLeftOf(n) == IF "default_left" \in DOMAIN n THEN n.default_left ELSE TRUE

IsMissing_nonFinite(v) == ~NumberIsFinite(v)

\* isMissing = Number.isNaN(v)
IsMissing(v) == NumberIsNaN(v)

\* goLeft at a split node for the value v = x[fidx]
GoLeft(n, v) ==
    LET decision == DecisionOf(n)
        thr == n.threshold
    IN  IF IsMissing(v) THEN DefaultLeftOf(n)
        ELSE IF decision = "<=" THEN JsLe(v, thr)
        ELSE IF decision = "<" THEN JsLt(v, thr)
        ELSE IF decision = ">" THEN JsGt(v, thr)
        ELSE IF decision = ">=" THEN JsGe(v, thr)
        ELSE IF decision = "==" THEN JsEq(v, thr)
        ELSE JsLe(v, thr)

RECURSIVE evalTreeNode(_, _)
evalTreeNode(n, x) ==
    IF IsLeaf(n) THEN n.leaf_value
    ELSE IF GoLeft(n, At(x, n.split_feature))
         THEN evalTreeNode(n.left_child, x)
         ELSE evalTreeNode(n.right_child, x)

(***************************************************************************)
(* The softmax and argmax both backends share in shape.  Math.exp is kept  *)
(* to three decimals (an exponent of -8 or less underflows to 0), and      *)
(* probabilities are kept in thousandths.                                   *)
(***************************************************************************)
ExpTable == <<1000, 368, 135, 50, 18, 7, 2, 1>>

\* Math.exp(d) for d <= 0, in thousandths
ExpQ(d) == IF -d + 1 \in DOMAIN ExpTable THEN ExpTable[-d + 1] ELSE 0

RECURSIVE SeqMax(_, _)
SeqMax(q, i) == IF i = 1 THEN q[1] ELSE Max2(SeqMax(q, i - 1), q[i])

RECURSIVE SeqSum(_, _)
SeqSum(q, i) == IF i = 0 THEN 0 ELSE SeqSum(q, i - 1) + q[i]

\* softmax of finite scores (Len(q) >= 1): exps[i] / sum, in thousandths
SoftmaxFinite(q) ==
    LET mx   == SeqMax(q, Len(q))
        exps == [i \in DOMAIN q |-> ExpQ(q[i] - mx)]
        sum  == SeqSum(exps, Len(q))
    IN  [i \in DOMAIN q |-> Num((exps[i] * 1000) \div sum)]

\* softmaxRow / softmaxStable on JavaScript numbers: one NaN score makes the
\* sum NaN (softmaxStable) or every exponent NaN (a NaN max), so every
\* probability is NaN
Softmax(q) ==
    IF \E i \in DOMAIN q : q[i].tag # "num" THEN [i \in DOMAIN q |-> NaN]
    ELSE IF Len(q) = 0 THEN << >>
    ELSE SoftmaxFinite([i \in DOMAIN q |-> q[i].v])

Better_orEqual(a, b) == a.tag = "num" /\ b.tag = "num" /\ a.v >= b.v

\* prob[k] > bestv
Better(a, b) == VGt(a, b)

\* the argmax loop: best = 0, then k = 1 .. length-1 (indices from 1 here)
RECURSIVE ArgmaxLoop(_, _, _)
ArgmaxLoop(p, k, best) ==
    IF k > Len(p) THEN best
    ELSE IF Better(p[k], p[best]) THEN ArgmaxLoop(p, k + 1, k)
    ELSE ArgmaxLoop(p, k + 1, best)

(***************************************************************************)
(* yasa_lgbm.js: LGBMDumpModel.                                            *)
(***************************************************************************)
DefaultClassNames == <<"W", "N1", "N2", "N3", "R">>

\* detectNumClass: 0 stands for "no num_class anywhere" (null)
detectNumClass(d) == d.num_class

\* the constructor; initScoreOpt is options.initScore (<< >>: not given)
LGBMDumpModel(d, initScoreOpt) ==
    LET nc == detectNumClass(d)
        numClass == IF nc # 0 THEN nc ELSE 5
    IN  [treeInfo     |-> d.tree_info,
         featureNames |-> d.feature_names,
         numClass     |-> numClass,
         classNames   |-> DefaultClassNames,
         initScore    |-> IF initScoreOpt # << >> THEN initScoreOpt
                          ELSE [c \in 1..numClass |-> 0]]

ClassOfTree_shifted(t, numClass) == (t + 1) % numClass

\* cls = t % this.numClass
ClassOfTree(t, numClass) == t % numClass

\* the loop over the trees 0 .. n-1, adding each leaf value to its class
RECURSIVE AddTrees(_, _, _, _)
AddTrees(m, x, n, scores) ==
    IF n = 0 THEN scores
    ELSE LET before == AddTrees(m, x, n - 1, scores)
             cls == ClassOfTree(n - 1, m.numClass)
             val == evalTreeNode(m.treeInfo[n], x)
         IN  [before EXCEPT ![cls + 1] = before[cls + 1] + val]

\* scores[c] = this.initScore[c] || 0, then the trees
RawScores(m, x) ==
    AddTrees(m, x, Len(m.treeInfo),
             [c \in 1..m.numClass |-> IF c \in DOMAIN m.initScore THEN m.initScore[c] ELSE 0])

\* predictProba for one row
predictProba(m, x) == Softmax([c \in 1..m.numClass |-> Num(RawScores(m, x)[c])])

\* predict for one row: this.classNames[best] || best
predict(m, x) ==
    LET prob == predictProba(m, x)
        best == ArgmaxLoop(prob, 2, 1)
    IN  [best |-> best - 1, label |-> m.classNames[best], prob |-> prob]

(***************************************************************************)
(* sleep_stage_features.js: loadSleepStageModel and predictFromFeatures.   *)
(***************************************************************************)
\* the checks of loadSleepStageModel; "" when the model is accepted
LoadError(model) ==
    IF model.format # "sleep_stage_lr_v1" THEN "Unexpected model format"
    ELSE IF Len(model.labels) # 5 THEN "Expected 5 labels"
    ELSE IF Len(model.feature_order) # Len(model.means)
            \/ Len(model.means) # Len(model.stds) THEN "Model arrays length mismatch"
    ELSE ""

\* the indices (from 1) of the features that are missing or not finite
BadFeatures(model, f) ==
    {i \in DOMAIN model.feature_order : ~NumberIsFinite(f[model.feature_order[i]])}

Least(S) == CHOOSE i \in S : \A j \in S : i <= j

Greatest(S) == CHOOSE i \in S : \A j \in S : j <= i

FirstBad_last(model, f) == Greatest(BadFeatures(model, f))

\* the packing loop throws at the first i whose feature is not finite
FirstBad(model, f) == Least(BadFeatures(model, f))

\* x[i] = (v - means[i]) / (stds[i] || 1); the model's values divide exactly
Standardize(model, f, i) ==
    LET v  == f[model.feature_order[i]].v
        sd == IF model.stds[i] = 0 THEN 1 ELSE model.stds[i]
    IN  (v - model.means[i]) \div sd

\* s = b[c]; for j: s += row[j] * x[j]   (c and j count from 1 here)
RECURSIVE Logit(_, _, _, _)
Logit(model, x, c, j) ==
    IF j = 0 THEN VAdd(AtNum(model.b, c - 1), Num(0))
    ELSE VAdd(Logit(model, x, c, j - 1), VMul(AtNum(model.W[c], j - 1), Num(x[j])))

\* W[c] is undefined for a label without a row: row[j] throws once x is not empty
LogitThrows(model) ==
    Len(model.feature_order) >= 1 /\ Len(model.W) < Len(model.labels)

\* predictFromFeatures of a loaded model
predictFromFeatures(model, f) ==
    IF BadFeatures(model, f) # {}
    THEN [threw |-> TRUE, error |-> "Missing or non-finite feature",
          name |-> model.feature_order[FirstBad(model, f)]]
    ELSE IF LogitThrows(model)
    THEN [threw |-> TRUE, error |-> "TypeError", name |-> ""]
    ELSE LET D      == Len(model.feature_order)
             x      == [i \in 1..D |-> Standardize(model, f, i)]
             logits == [c \in 1..Len(model.labels) |-> Logit(model, x, c, D)]
             probsL == Softmax(logits)
             best   == ArgmaxLoop(probsL, 2, 1)
         IN  [threw |-> FALSE, predId |-> best - 1, predLabel |-> model.labels[best],
              probs |-> probsL, logits |-> logits]

(***************************************************************************)
(* The inputs of the classifier runs.                                      *)
(***************************************************************************)
Leaf(v) == [leaf_value |-> v]

\* a split node on feature f with threshold 0; d or dl "absent" leaves the
\* field out of the node
SplitNode(f, d, dl, L, R) ==
    LET base  == [split_feature |-> f, threshold |-> 0, left_child |-> L, right_child |-> R]
        withD == IF d = "absent" THEN base ELSE base @@ [decision_type |-> d]
    IN  IF dl = "absent" THEN withD ELSE withD @@ [default_left |-> (dl = "true")]

\* "~" is a decision_type evalTreeNode does not know
Decisions == {"<=", "<", ">", ">=", "==", "~", "absent"}

Stumps ==
    {SplitNode(f, d, dl, Leaf(1), Leaf(2)) :
        f \in 0..(MaxRow - 1), d \in Decisions, dl \in {"true", "false", "absent"}}

DeepTree == SplitNode(0, ">", "absent", SplitNode(1, "<=", "false", Leaf(4), Leaf(8)), Leaf(16))

NodeSet == Stumps \cup {Leaf(3), DeepTree}

\* the trees an ensemble is made of
TreeSet == {Leaf(3), SplitNode(0, "<=", "true", Leaf(1), Leaf(2)),
            SplitNode(1, "<", "false", Leaf(32), Leaf(64)), DeepTree}

RowValues == {Num(-1), Num(0), Num(1), NaN, PosInf, NegInfV}

Rows == UNION {[1..n -> RowValues] : n \in 0..MaxRow}

Dumps ==
    {[tree_info |-> ti, num_class |-> nc,
      feature_names |-> SubSeq(<<"f0", "f1", "f2", "f3">>, 1, MaxRow)] :
        ti \in UNION {[1..n -> TreeSet] : n \in 0..MaxTrees}, nc \in {0, 2, 3}}

\* the first feature names of the linear model, in the model's order
FeatureOrder == <<"log_delta", "log_theta", "log_alpha", "log_sigma", "log_beta">>

\* the place of a name in lexicographic order
SortRank(name) ==
    CASE name = "log_alpha" -> 1
      [] name = "log_beta"  -> 2
      [] name = "log_delta" -> 3
      [] name = "log_sigma" -> 4
      [] name = "log_theta" -> 5

MeanPattern == <<0, 2, 0, 0, 2>>
StdPattern == <<1, 0, 2, 1, 2>>

\* two weight settings: no weights and tied biases, or mixed weights
WeightAt(kind, c, j) == IF kind = 1 THEN 0 ELSE ((c + j) % 3) - 1
BiasAt(kind, c) == IF kind = 1 THEN (IF c \in {2, 3} THEN 1 ELSE 0) ELSE c % 2

\* the linear models: consistent ones, and ones whose means, stds, W rows,
\* W row length, b or labels fall short of (or exceed) the declared sizes
LinearModels ==
    {[format |-> "sleep_stage_lr_v1",
      labels |-> SubSeq(StageLabels, 1, nL),
      feature_order |-> SubSeq(FeatureOrder, 1, D),
      means |-> SubSeq(MeanPattern, 1, D - dm),
      stds |-> SubSeq(StdPattern, 1, D - ds),
      W |-> [c \in 1..nW |-> [j \in 1..(D + dw) |-> WeightAt(kind, c, j)]],
      b |-> [c \in 1..nB |-> BiasAt(kind, c)]] :
        nL \in {4, 5}, D \in 1..MaxFeat, dm \in {0, 1}, ds \in {0, 1},
        nW \in {4, 5}, dw \in {-1, 0, 1}, nB \in {4, 5, 6}, kind \in {1, 2}}

FeatureValues == {Num(2), Undef, NaN}

\* featuresByName for the names a model declares
FeatureMaps(model) == [Range(model.feature_order) -> FeatureValues]

(***************************************************************************)
(* The classifiers' specification.                                         *)
(***************************************************************************)
CInitNode ==
    /\ call = "node"
    /\ node \in NodeSet
    /\ xrow \in Rows
    /\ dump = NoDump /\ lmodel = NoModel /\ feats = NoFeats

CInitTree ==
    /\ call = "tree"
    /\ dump \in Dumps
    /\ xrow \in Rows
    /\ node = NoNode /\ lmodel = NoModel /\ feats = NoFeats

CInitLinear ==
    /\ call = "linear"
    /\ lmodel \in LinearModels
    /\ feats \in FeatureMaps(lmodel)
    /\ node = NoNode /\ dump = NoDump /\ xrow = << >>

CInit ==
    /\ cpc = "input"
    /\ lgbm = NoDump
    /\ cout = NoOut
    /\ (CInitNode \/ CInitTree \/ CInitLinear)
    /\ VIdle /\ EIdle /\ DIdle /\ PIdle /\ AIdle

\* evalTreeNode(node, x)
EvalNode ==
    /\ call = "node" /\ cpc = "input"
    /\ cout' = [threw |-> FALSE, value |-> evalTreeNode(node, xrow)]
    /\ cpc' = "done"
    /\ UNCHANGED <<call, xrow, node, dump, lgbm, lmodel, feats>>
    /\ UNCHANGED <<vvars, evars, dvars, pvars, avars>>

InitScoreOptions == {<< >>, <<100, 200>>}

\* new LGBMDumpModel(modelDump, options)
Construct ==
    /\ call = "tree" /\ cpc = "input"
    /\ \E io \in InitScoreOptions : lgbm' = LGBMDumpModel(dump, io)
    /\ cpc' = "constructed"
    /\ UNCHANGED <<call, xrow, node, dump, lmodel, feats, cout>>
    /\ UNCHANGED <<vvars, evars, dvars, pvars, avars>>

\* model.predict([x]), which calls predictProba([x])
Predict ==
    /\ call = "tree" /\ cpc = "constructed"
    /\ cout' = [threw |-> FALSE, scores |-> RawScores(lgbm, xrow)] @@ predict(lgbm, xrow)
    /\ cpc' = "done"
    /\ UNCHANGED <<call, xrow, node, dump, lgbm, lmodel, feats>>
    /\ UNCHANGED <<vvars, evars, dvars, pvars, avars>>

\* loadSleepStageModel(modelUrl), after the fetch
LoadModel ==
    /\ call = "linear" /\ cpc = "input"
    /\ IF LoadError(lmodel) # ""
       THEN /\ cpc' = "threw"
            /\ cout' = [threw |-> TRUE, error |-> LoadError(lmodel), name |-> ""]
       ELSE /\ cpc' = "loaded"
            /\ UNCHANGED cout
    /\ UNCHANGED <<call, xrow, node, dump, lgbm, lmodel, feats>>
    /\ UNCHANGED <<vvars, evars, dvars, pvars, avars>>

\* predictFromFeatures(featuresByName) of the loaded model
PredictFromFeatures ==
    /\ call = "linear" /\ cpc = "loaded"
    /\ cout' = predictFromFeatures(lmodel, feats)
    /\ cpc' = IF cout'.threw THEN "threw" ELSE "done"
    /\ UNCHANGED <<call, xrow, node, dump, lgbm, lmodel, feats>>
    /\ UNCHANGED <<vvars, evars, dvars, pvars, avars>>

CNext == EvalNode \/ Construct \/ Predict \/ LoadModel \/ PredictFromFeatures

SpecViterbi == VInit /\ [][VNext]_vars

SpecClassify == CInit /\ [][CNext]_vars

(***************************************************************************)
(* Claims about the classifiers.                                           *)
(***************************************************************************)
TreeDone == call = "tree" /\ cpc = "done"

RECURSIVE SetSum(_, _)
SetSum(S, f) ==
    IF S = {} THEN 0
    ELSE LET t == CHOOSE u \in S : TRUE IN f[t] + SetSum(S \ {t}, f)

\* C5: the raw score of class c is initScore[c] plus the leaf values reached
\* in exactly the trees t with t mod numClass = c, each tree counted once.
C5_ScorePerClass ==
    TreeDone =>
        LET n    == Len(lgbm.treeInfo)
            leaf == [t \in 0..(n - 1) |-> evalTreeNode(lgbm.treeInfo[t + 1], xrow)]
        IN  \A c \in 0..(lgbm.numClass - 1) :
                cout.scores[c + 1] =
                    (IF c + 1 \in DOMAIN lgbm.initScore THEN lgbm.initScore[c + 1] ELSE 0)
                    + SetSum({t \in 0..(n - 1) : t % lgbm.numClass = c}, leaf)

\* three trees over two classes with a bias: class 0 takes trees 0 and 2
C5_Witness ==
    /\ TreeDone
    /\ Len(lgbm.treeInfo) = 3 /\ lgbm.numClass = 2 /\ lgbm.initScore = <<100, 200>>
    /\ lgbm.treeInfo[1] # lgbm.treeInfo[3]
    /\ cout.scores[1] > 100 /\ cout.scores[2] > 200

NodeDone == call = "node" /\ cpc = "done" /\ ~IsLeaf(node)

\* the value the root split reads
RootValue == At(xrow, node.split_feature)

\* the result of going to the left / right child of the root
WentLeft == cout.value = evalTreeNode(node.left_child, xrow)
WentRight == cout.value = evalTreeNode(node.right_child, xrow)

\* the node's default_left, true when the node has none
RootDefaultLeft == IF "default_left" \in DOMAIN node THEN node.default_left ELSE TRUE

\* C6 as stated: a non-finite value (NaN, +Infinity, -Infinity, absent) goes
\* the node's default_left way, whatever the threshold.
C6_NonFiniteFollowsDefault ==
    (NodeDone /\ RootValue.tag # "num") =>
        IF RootDefaultLeft THEN WentLeft ELSE WentRight

\* C6 as amended: NaN goes the default_left way; +Infinity and -Infinity are
\* compared against the threshold like any number; an absent value fails every
\* comparison and goes right.
C6_NaNFollowsDefault ==
    /\ (NodeDone /\ RootValue.tag = "nan") =>
          IF RootDefaultLeft THEN WentLeft ELSE WentRight
    /\ (NodeDone /\ RootValue.tag = "undef") => WentRight
    /\ (NodeDone /\ RootValue.tag = "pinf") =>
          IF "decision_type" \in DOMAIN node /\ node.decision_type \in {">", ">="}
          THEN WentLeft ELSE WentRight
    /\ (NodeDone /\ RootValue.tag = "ninf") =>
          IF "decision_type" \in DOMAIN node /\ node.decision_type \in {">", ">=", "=="}
          THEN WentRight ELSE WentLeft

\* a NaN at a "<=" node whose default_left is false: the right leaf
C6_Witness ==
    /\ NodeDone /\ RootValue.tag = "nan"
    /\ "default_left" \in DOMAIN node /\ ~node.default_left
    /\ "decision_type" \in DOMAIN node /\ node.decision_type = "<="
    /\ IsLeaf(node.right_child) /\ cout.value = node.right_child.leaf_value

\* the indices no other index beats
MaxIndices(p) == {k \in DOMAIN p : \A j \in DOMAIN p : ~VGt(p[j], p[k])}

\* C7: predict returns the label at the lowest index attaining the maximum
\* probability, in LGBMDumpModel.predict and in predictFromFeatures.
C7_ArgmaxLowestIndex ==
    /\ TreeDone =>
          /\ cout.best + 1 = Least(MaxIndices(cout.prob))
          /\ cout.label = lgbm.classNames[Least(MaxIndices(cout.prob))]
    /\ (call = "linear" /\ cpc = "done") =>
          /\ cout.predId + 1 = Least(MaxIndices(cout.probs))
          /\ cout.predLabel = lmodel.labels[Least(MaxIndices(cout.probs))]

\* N1 and N2 tie for the maximum above W: N1 is returned
C7_Witness ==
    /\ call = "linear" /\ cpc = "done"
    /\ cout.probs[2] = cout.probs[3] /\ VGt(cout.probs[2], cout.probs[1])
    /\ MaxIndices(cout.probs) = {2, 3}
    /\ cout.predLabel = "N1"

\* one row per label with one weight per feature, one bias per label, one
\* mean and one std per feature
Consistent(model) ==
    /\ Len(model.W) = Len(model.labels)
    /\ \A c \in DOMAIN model.W : Len(model.W[c]) = Len(model.feature_order)
    /\ Len(model.b) = Len(model.labels)
    /\ Len(model.means) = Len(model.feature_order)
    /\ Len(model.stds) = Len(model.feature_order)

LinearRan == call = "linear" /\ cpc \in {"done", "threw"} /\ LoadError(lmodel) = ""

\* the declared names whose feature is missing or not finite
BadNames == {nm \in Range(lmodel.feature_order) : feats[nm].tag # "num"}

MissingError == cout.threw /\ cout.error = "Missing or non-finite feature"

\* C8 as stated (for a model of consistent dimensions): with a feature
\* missing or non-finite the error names the first such name in sorted order;
\* with none there is no such error.
C8_ErrorNamesFirstSorted ==
    (LinearRan /\ Consistent(lmodel)) =>
        IF BadNames # {}
        THEN /\ cpc = "threw" /\ MissingError
             /\ cout.name \in BadNames
             /\ \A nm \in BadNames : SortRank(cout.name) <= SortRank(nm)
        ELSE ~MissingError

\* C8 as amended: the error names the first such name in the order of the
\* model's featureOrder.
C8_ErrorNamesFirstInFeatureOrder ==
    LinearRan =>
        IF BadNames # {}
        THEN /\ cpc = "threw" /\ MissingError
             /\ \E i \in DOMAIN lmodel.feature_order :
                  /\ cout.name = lmodel.feature_order[i]
                  /\ cout.name \in BadNames
                  /\ \A j \in 1..(i - 1) : lmodel.feature_order[j] \notin BadNames
        ELSE ~MissingError

\* log_delta and log_alpha are both missing: the error names log_delta
C8_Witness ==
    /\ LinearRan /\ cpc = "threw"
    /\ {"log_delta", "log_alpha"} \subseteq BadNames
    /\ cout.name = "log_delta"

\* the split_feature indices a tree reads
RECURSIVE SplitFeatures(_)
SplitFeatures(n) ==
    IF IsLeaf(n) THEN {}
    ELSE {n.split_feature} \cup SplitFeatures(n.left_child) \cup SplitFeatures(n.right_child)

\* the row is shorter than a split_feature index of the model's trees: a
\* feature the model reads is absent from the row
RowMismatch ==
    \E t \in DOMAIN lgbm.treeInfo : \E f \in SplitFeatures(lgbm.treeInfo[t]) : f >= Len(xrow)

\* C9: with a row that does not match the declared features the tree backend
\* fails with an error instead of returning class probabilities.
C9_TreeMismatchIsError ==
    (call = "tree" /\ cpc \in {"done", "threw"} /\ RowMismatch) => cpc = "threw"

\* C10: a linear model with inconsistent dimensions is rejected at load or at
\* inference and never yields a stage label.
C10_InconsistentModelRejected ==
    (call = "linear" /\ ~Consistent(lmodel)) => cpc # "done"


(***************************************************************************)
(* EDF text fields.  A buffer is a sequence of bytes 0..255; header fields *)
(* are ASCII text.  A number read from the header is kept in units of      *)
(* 1/Unit (four decimals), tagged as the JS numbers of the tree backend.   *)
(***************************************************************************)
Unit == 10000

LowerCase ==
    <<"a", "b", "c", "d", "e", "f", "g", "h", "i", "j", "k", "l", "m",
      "n", "o", "p", "q", "r", "s", "t", "u", "v", "w", "x", "y", "z">>

AsciiOf ==
    [c \in {"0", "1", "2", "3", "4", "5", "6", "7", "8", "9"} |->
        CASE c = "0" -> 48 [] c = "1" -> 49 [] c = "2" -> 50 [] c = "3" -> 51
          [] c = "4" -> 52 [] c = "5" -> 53 [] c = "6" -> 54 [] c = "7" -> 55
          [] c = "8" -> 56 [] c = "9" -> 57]
    @@ [c \in {" ", "-", "+", ".", "_", "V", "E", "G", "C", "I"} |->
        CASE c = " " -> 32 [] c = "-" -> 45 [] c = "+" -> 43 [] c = "." -> 46
          [] c = "_" -> 95 [] c = "V" -> 86 [] c = "E" -> 69
          [] c = "G" -> 71 [] c = "C" -> 67 [] c = "I" -> 73]
    @@ [c \in {LowerCase[i] : i \in 1..26} |->
        96 + (CHOOSE i \in 1..26 : LowerCase[i] = c)]

\* the bytes of a text written as a tuple of one-character strings
Ascii(chars) == [i \in 1..Len(chars) |-> AsciiOf[chars[i]]]

IsDigit(b) == b >= 48 /\ b <= 57
IsSpace(b) == b \in {9, 10, 11, 12, 13, 32}

\* String.prototype.trim
RECURSIVE TrimLeft(_)
TrimLeft(t) == IF t # << >> /\ IsSpace(Head(t)) THEN TrimLeft(Tail(t)) ELSE t

RECURSIVE TrimRight(_)
TrimRight(t) ==
    IF t # << >> /\ IsSpace(t[Len(t)]) THEN TrimRight(SubSeq(t, 1, Len(t) - 1)) ELSE t

Trim(t) == TrimRight(TrimLeft(t))

\* bytes.slice(start, start + length): the part of it that lies in the buffer
Slice(bytes, start, length) ==
    LET lo == IF start < Len(bytes) THEN start ELSE Len(bytes)
        hi == IF start + length < Len(bytes) THEN start + length ELSE Len(bytes)
    IN  SubSeq(bytes, lo + 1, hi)

readAscii(bytes, start, length) == Trim(Slice(bytes, start, length))

RECURSIVE DigitsValue(_)
DigitsValue(t) ==
    IF t = << >> THEN 0 ELSE 10 * DigitsValue(SubSeq(t, 1, Len(t) - 1)) + (t[Len(t)] - 48)

AllDigits(t) == \A i \in 1..Len(t) : IsDigit(t[i])

Pow10(k) == CASE k = 0 -> 1 [] k = 1 -> 10 [] k = 2 -> 100 [] k = 3 -> 1000 [] OTHER -> 10000

\* the value, in units, of the decimal literal intPart "." fracPart
DecimalValue(ip, fp) ==
    LET f == SubSeq(fp, 1, IF Len(fp) < 4 THEN Len(fp) ELSE 4)
    IN  DigitsValue(ip) * Unit + DigitsValue(f) * Pow10(4 - Len(f))

\* Number(txt) on an unsigned text: decimal digits with at most one point
UnsignedNumber(t) ==
    LET dots == {i \in 1..Len(t) : t[i] = 46}
    IN  IF t = Ascii(<<"I", "n", "f", "i", "n", "i", "t", "y">>) THEN PosInf
        ELSE IF dots = {} THEN
            IF t # << >> /\ AllDigits(t) THEN Num(DecimalValue(t, << >>)) ELSE NaN
        ELSE IF Cardinality(dots) > 1 THEN NaN
        ELSE LET d == CHOOSE i \in dots : TRUE
                 ip == SubSeq(t, 1, d - 1)
                 fp == SubSeq(t, d + 1, Len(t))
             IN  IF AllDigits(ip) /\ AllDigits(fp) /\ Len(ip) + Len(fp) > 0
                 THEN Num(DecimalValue(ip, fp)) ELSE NaN

Negate(v) ==
    CASE v.tag = "num" -> Num(0 - v.v) [] v.tag = "pinf" -> NegInfV
      [] v.tag = "ninf" -> PosInf [] OTHER -> v

\* Number(txt) of a trimmed text: the empty text is 0
ToNumber(t) ==
    IF t = << >> THEN Num(0)
    ELSE IF Head(t) = 45 THEN (IF Len(t) = 1 THEN NaN ELSE Negate(UnsignedNumber(Tail(t))))
    ELSE IF Head(t) = 43 THEN (IF Len(t) = 1 THEN NaN ELSE UnsignedNumber(Tail(t)))
    ELSE UnsignedNumber(t)

readNumber(bytes, start, length) ==
    LET n == ToNumber(readAscii(bytes, start, length))
    IN  IF NumberIsNaN(n) THEN Num(0) ELSE n


(***************************************************************************)
(* parseEdf (edf_parser.js).  A sample is the exact rational n/d, in       *)
(* units, that the scaling formula yields; the rounding of the values to   *)
(* Float32 is not modelled.  Per-signal header numbers and the record      *)
(* count are integers in every buffer the model reads, and every signal    *)
(* declares at least one sample per record.                                *)
(***************************************************************************)
IntOf(v) == IF v.tag = "num" THEN v.v \div Unit ELSE 0

Rat(n, d) == IF d < 0 THEN [n |-> 0 - n, d |-> 0 - d] ELSE [n |-> n, d |-> d]

RECURSIVE SumTo(_, _)
SumTo(f, k) == IF k = 0 THEN 0 ELSE f[k] + SumTo(f, k - 1)

\* a read that takes the first byte as the high one
getInt16_bigEndian(bytes, byteOffset) ==
    LET u == 256 * bytes[byteOffset + 1] + bytes[byteOffset + 2]
    IN  IF u >= 32768 THEN u - 65536 ELSE u

\* the little-endian signed 16-bit word at byteOffset (DataView.getInt16)
getInt16(bytes, byteOffset) ==
    LET u == bytes[byteOffset + 1] + 256 * bytes[byteOffset + 2]
    IN  IF u >= 32768 THEN u - 65536 ELSE u

labelsOffset == 256
transducerOffset(nSignals) == labelsOffset + 16 * nSignals
physDimOffset(nSignals) == transducerOffset(nSignals) + 80 * nSignals
physMinOffset(nSignals) == physDimOffset(nSignals) + 8 * nSignals
physMaxOffset(nSignals) == physMinOffset(nSignals) + 8 * nSignals
digMinOffset(nSignals) == physMaxOffset(nSignals) + 8 * nSignals
digMaxOffset(nSignals) == digMinOffset(nSignals) + 8 * nSignals
prefilterOffset(nSignals) == digMaxOffset(nSignals) + 8 * nSignals
samplesPerRecordOffset(nSignals) == prefilterOffset(nSignals) + 80 * nSignals

\* "Ch " followed by the one-digit number of the signal
DefaultLabel(s) == Ascii(<<"C", "h", " ">>) \o <<48 + s>>

InvalidHeader(headerBytes, nSignals, durationSecPerRecord) ==
    \/ ~NumberIsFinite(headerBytes)
    \/ ~NumberIsFinite(nSignals)
    \/ JsLe(nSignals, 0)
    \/ ~NumberIsFinite(durationSecPerRecord)
    \/ JsLe(durationSecPerRecord, 0)

\* the sample positions <<r, i>> of a signal, in the order the loops visit them
SamplePositions(records, nSamp) ==
    [k \in 1..(records * nSamp) |-> <<(k - 1) \div nSamp, (k - 1) % nSamp>>]

\* a scaling that falls back to 1 for every non-positive digital range
Physical_positiveDenom(physMin, physMax, digMin, digMax, digit) ==
    LET denom == IF digMax - digMin > 0 THEN digMax - digMin ELSE 1
    IN  [n |-> physMin * denom - (physMax - physMin) * digMin + (physMax - physMin) * digit,
         d |-> denom]

\* the physical value of a digital one: baseVal + scale * digit
Physical(physMin, physMax, digMin, digMax, digit) ==
    LET denom == IF digMax - digMin # 0 THEN digMax - digMin ELSE 1
    IN  Rat(physMin * denom - (physMax - physMin) * digMin + (physMax - physMin) * digit,
            denom)

\* one channel of the recording: lines 174-208
DecodeChannel(bytes, s, sig, headerBytes, records, bytesPerRecord, signalOffset, dur) ==
    LET nSamp == sig.nSamp
        pos == SamplePositions(records, nSamp)
        ByteOffset(k) == headerBytes + pos[k][1] * bytesPerRecord + signalOffset + pos[k][2] * 2
        readable == SelectSeq([k \in 1..Len(pos) |-> k],
                              LAMBDA k : ~(ByteOffset(k) + 1 >= Len(bytes)))
        zero == Physical(0, 0, sig.digMin, sig.digMax, 0)
    IN  [name |-> sig.label,
         fs |-> Rat(nSamp * Unit, dur),
         samples |-> [k \in 1..Len(pos) |->
                        IF k <= Len(readable)
                        THEN Physical(sig.physMin, sig.physMax, sig.digMin, sig.digMax,
                                      getInt16(bytes, ByteOffset(readable[k])))
                        ELSE zero]]

\* computeDisplayRanges: the display range of a channel
DisplayRange(ch) ==
    LET ns == {ch.samples[k].n : k \in 1..Len(ch.samples)}
        lo == CHOOSE a \in ns : \A b \in ns : a <= b
        hi == CHOOSE a \in ns : \A b \in ns : a >= b
    IN  IF ch.samples = << >> \/ lo = hi
        THEN [displayMin |-> Rat(0 - Unit, 1), displayMax |-> Rat(Unit, 1)]
        ELSE [displayMin |-> Rat(lo, ch.samples[1].d), displayMax |-> Rat(hi, ch.samples[1].d)]

parseEdf(bytes) ==
    LET headerBytes == readNumber(bytes, 184, 8)
        nDataRecords == readNumber(bytes, 236, 8)
        durationSecPerRecord == readNumber(bytes, 244, 8)
        nSignalsV == readNumber(bytes, 252, 4)
    IN  IF InvalidHeader(headerBytes, nSignalsV, durationSecPerRecord)
        THEN [threw |-> TRUE, error |-> "Invalid EDF header"]
        ELSE
        LET nSignals == IntOf(nSignalsV)
            hb == IntOf(headerBytes)
            sigs == [s \in 1..nSignals |->
                LET label == readAscii(bytes, labelsOffset + 16 * (s - 1), 16)
                IN  [label |-> IF label # << >> THEN label ELSE DefaultLabel(s),
                     physMin |-> readNumber(bytes, physMinOffset(nSignals) + 8 * (s - 1), 8).v,
                     physMax |-> readNumber(bytes, physMaxOffset(nSignals) + 8 * (s - 1), 8).v,
                     digMin |-> IntOf(readNumber(bytes, digMinOffset(nSignals) + 8 * (s - 1), 8)),
                     digMax |-> IntOf(readNumber(bytes, digMaxOffset(nSignals) + 8 * (s - 1), 8)),
                     nSamp |-> IntOf(readNumber(bytes,
                                  samplesPerRecordOffset(nSignals) + 8 * (s - 1), 8))]]
            samplesPerRecord == [s \in 1..nSignals |-> sigs[s].nSamp]
            bytesPerRecord == 2 * SumTo(samplesPerRecord, nSignals)
        IN  IF nDataRecords.tag = "pinf"
            THEN [threw |-> TRUE, error |-> "RangeError"]   \* new Float32Array(Infinity)
            ELSE
            LET records == IF JsLe(nDataRecords, 0)
                           THEN (Len(bytes) - hb) \div bytesPerRecord
                           ELSE IntOf(nDataRecords)
            IN  IF records < 0 \/ (hb < 0 /\ records > 0)
                THEN [threw |-> TRUE, error |-> "RangeError"]   \* new Float32Array(-n), getInt16(-n)
                ELSE
                LET raw == [s \in 1..nSignals |->
                              DecodeChannel(bytes, s, sigs[s], hb, records, bytesPerRecord,
                                            2 * SumTo(samplesPerRecord, s - 1),
                                            durationSecPerRecord.v)]
                IN  [threw |-> FALSE,
                     durationSec |-> records * durationSecPerRecord.v,
                     channels |-> [s \in 1..nSignals |-> raw[s] @@ DisplayRange(raw[s])]]


(***************************************************************************)
(* makeEdfFromView (renderers.js).  Samples, times and physical ranges are *)
(* integers in units; the quantization is computed exactly.                *)
(***************************************************************************)
DIG_MIN == -32768
DIG_MAX == 32767

Min2(a, b) == IF a <= b THEN a ELSE b

Abs(a) == IF a < 0 THEN 0 - a ELSE a

\* Math.round of the quotient n / m, m > 0: halves go up
RoundDiv(n, m) == (n \div m) + (IF 2 * (n % m) >= m THEN 1 ELSE 0)

RECURSIVE IntDigits(_)
IntDigits(n) == IF n < 10 THEN <<48 + n>> ELSE IntDigits(n \div 10) \o <<48 + (n % 10)>>

\* Number.prototype.toString of an integer
IntegerText(n) == IF n < 0 THEN <<45>> \o IntDigits(0 - n) ELSE IntDigits(n)

\* Number.prototype.toFixed(3) of v units: the nearest thousandth of |v|, its sign kept
ToFixed3(v) ==
    LET n == RoundDiv(Abs(v), Unit \div 1000)
        f == n % 1000
    IN  (IF v < 0 THEN <<45>> ELSE << >>) \o IntDigits(n \div 1000) \o <<46>>
        \o <<48 + (f \div 100), 48 + ((f \div 10) % 10), 48 + (f % 10)>>

\* writeAscii: the text cut to the field and padded with spaces
FieldText(length, text) ==
    [i \in 1..length |-> IF i <= Len(text) THEN text[i] ELSE 32]

\* writeNumberField of the number of v units
NumberField(length, v) ==
    FieldText(length, IF v % Unit = 0 THEN IntegerText(v \div Unit) ELSE ToFixed3(v))

\* the bytes of a buffer of n bytes after the writes w (offset, bytes), later
\* writes over earlier ones; unwritten bytes are 0
ApplyWrites(n, w) ==
    [i \in 1..n |->
        LET hit == {k \in 1..Len(w) : w[k][1] < i /\ i <= w[k][1] + Len(w[k][2])}
        IN  IF hit = {} THEN 0
            ELSE LET k == CHOOSE a \in hit : \A b \in hit : a >= b
                 IN  w[k][2][i - w[k][1]]]

\* DataView.setInt16(offset, d, true)
Int16Bytes(d) ==
    LET u == IF d < 0 THEN d + 65536 ELSE d
    IN  <<u % 256, u \div 256>>

RECURSIVE FlattenWords(_)
FlattenWords(ds) == IF ds = << >> THEN << >> ELSE Int16Bytes(Head(ds)) \o FlattenWords(Tail(ds))

RECURSIVE Concat(_)
Concat(ss) == IF ss = << >> THEN << >> ELSE Head(ss) \o Concat(Tail(ss))

SegMin(seg) == Least({seg[i] : i \in 1..Len(seg)})

SegMax(seg) == Greatest({seg[i] : i \in 1..Len(seg)})

\* the segment of a channel inside the window: lines 536-546
Segment(ch, viewStartSec, effectiveDurationSec) ==
    LET startSample == (viewStartSec * ch.fs) \div Unit
        maxLen == Max2(0, Len(ch.samples) - startSample)
        idealLen == (effectiveDurationSec * ch.fs) \div Unit
        len == Max2(1, Min2(maxLen, idealLen))
    IN  SubSeq(ch.samples, startSample + 1, Min2(startSample + len, Len(ch.samples)))

\* physMin and physMax of a segment: lines 549-559
SegmentRange(seg) ==
    IF seg = << >> \/ SegMin(seg) = SegMax(seg)
    THEN [minV |-> 0 - Unit, maxV |-> Unit]
    ELSE [minV |-> SegMin(seg), maxV |-> SegMax(seg)]

\* the digital value of a sample: lines 561-569
Quantize(v, minV, maxV) ==
    LET denom == IF maxV - minV # 0 THEN maxV - minV ELSE 1
        d == RoundDiv((v - minV) * (DIG_MAX - DIG_MIN), denom) + DIG_MIN
    IN  IF d < DIG_MIN THEN DIG_MIN ELSE IF d > DIG_MAX THEN DIG_MAX ELSE d


\* the header and data writes of lines 599-678, for the signals sg
\* (label, physMin, physMax, digits); the start date and time, which parseEdf
\* never reads, are written as a fixed clock reading
EdfWrites(sg, recordDurationSec) ==
    LET nSignals == Len(sg)
        headerBytes == 256 + 256 * nSignals
        reservedOffset == samplesPerRecordOffset(nSignals) + 8 * nSignals
        main == <<
            <<0, FieldText(8, <<48>>)>>,
            <<8, FieldText(80, <<88>>)>>,
            <<88, FieldText(80, <<84, 114, 105, 109, 109, 101, 100, 32, 69, 68, 70>>)>>,
            <<168, FieldText(8, <<48, 49, 46, 48, 49, 46, 50, 53>>)>>,
            <<176, FieldText(8, <<48, 48, 46, 48, 48, 46, 48, 48>>)>>,
            <<184, NumberField(8, headerBytes * Unit)>>,
            <<192, FieldText(44, << >>)>>,
            <<236, NumberField(8, 1 * Unit)>>,
            <<244, NumberField(8, recordDurationSec)>>,
            <<252, NumberField(4, nSignals * Unit)>> >>
        PerSignal(s) == <<
            <<labelsOffset + 16 * (s - 1), FieldText(16, sg[s].label)>>,
            <<transducerOffset(nSignals) + 80 * (s - 1), FieldText(80, << >>)>>,
            <<physDimOffset(nSignals) + 8 * (s - 1), FieldText(8, <<117, 86>>)>>,
            <<physMinOffset(nSignals) + 8 * (s - 1), NumberField(8, sg[s].physMin)>>,
            <<physMaxOffset(nSignals) + 8 * (s - 1), NumberField(8, sg[s].physMax)>>,
            <<digMinOffset(nSignals) + 8 * (s - 1), NumberField(8, DIG_MIN * Unit)>>,
            <<digMaxOffset(nSignals) + 8 * (s - 1), NumberField(8, DIG_MAX * Unit)>>,
            <<prefilterOffset(nSignals) + 80 * (s - 1), FieldText(80, << >>)>>,
            <<samplesPerRecordOffset(nSignals) + 8 * (s - 1),
              NumberField(8, Len(sg[s].digits) * Unit)>>,
            <<reservedOffset + 32 * (s - 1), FieldText(32, << >>)>> >>
        data == FlattenWords(Concat([s \in 1..nSignals |-> sg[s].digits]))
    IN  [n |-> headerBytes + Len(data),
         w |-> main \o Concat([s \in 1..nSignals |-> PerSignal(s)])
               \o <<<<headerBytes, data>>>>]

makeEdfFromView(o) ==
    IF o.channelIndices = << >>
    THEN [threw |-> TRUE, error |-> "No channels selected"]
    ELSE
    LET chans == SelectSeq([k \in 1..Len(o.channelIndices) |->
                              IF o.channelIndices[k] < Len(o.channels)
                              THEN <<o.channels[o.channelIndices[k] + 1]>> ELSE << >>],
                           LAMBDA c : c # << >>)
        nSignals == Len(chans)
    IN  IF nSignals = 0 THEN [threw |-> TRUE, error |-> "No valid channels for EDF"]
        ELSE
        LET ch(s) == chans[s][1]
            maxDurForCh(s) ==
                LET startSample == (o.viewStartSec * ch(s).fs) \div Unit
                IN  IF startSample < Len(ch(s).samples)
                    THEN ((Len(ch(s).samples) - startSample) * Unit) \div ch(s).fs
                    ELSE 0
            effectiveDurationSec ==
                Least({o.viewDurationSec} \cup {maxDurForCh(s) : s \in 1..nSignals})
        IN  IF effectiveDurationSec <= 0
            THEN [threw |-> TRUE, error |-> "View window is outside available data"]
            ELSE
            LET sg == [s \in 1..nSignals |->
                    LET seg == Segment(ch(s), o.viewStartSec, effectiveDurationSec)
                        r == SegmentRange(seg)
                    IN  [label |-> IF ch(s).name # << >> THEN ch(s).name ELSE DefaultLabel(s),
                         physMin |-> r.minV,
                         physMax |-> r.maxV,
                         digits |-> [i \in 1..Len(seg) |-> Quantize(seg[i], r.minV, r.maxV)]]]
                durFromFirst == (Len(sg[1].digits) * Unit) \div ch(1).fs
                e == EdfWrites(sg, IF durFromFirst # 0 THEN durFromFirst ELSE effectiveDurationSec)
            IN  [threw |-> FALSE, buffer |-> ApplyWrites(e.n, e.w)]


(***************************************************************************)
(* EDF inputs: files read from disk and view windows to be saved.          *)
(***************************************************************************)
MaxSignals == 2      \* most signals of a file
MaxRecords == 2      \* most data records of a file

\* per-signal header texts: an ordinary range, equal digital bounds, a small
\* digital range, and inverted bounds with an empty label
SignalHeaders == <<
    [label |-> Ascii(<<"E", "E", "G">>), physMin |-> Ascii(<<"-", "1">>), physMax |-> Ascii(<<"1">>),
     digMin |-> Ascii(<<"-", "3", "2", "7", "6", "8">>), digMax |-> Ascii(<<"3", "2", "7", "6", "7">>),
     nSamp |-> 1],
    [label |-> Ascii(<<"E", "G">>), physMin |-> Ascii(<<"-", "0", ".", "5">>),
     physMax |-> Ascii(<<"2", ".", "5">>),
     digMin |-> Ascii(<<"5">>), digMax |-> Ascii(<<"5">>), nSamp |-> 2],
    [label |-> Ascii(<<"C", "h">>), physMin |-> Ascii(<<"0">>), physMax |-> Ascii(<<"2">>),
     digMin |-> Ascii(<<"-", "2">>), digMax |-> Ascii(<<"2">>), nSamp |-> 2],
    [label |-> << >>, physMin |-> Ascii(<<"1">>), physMax |-> Ascii(<<"-", "1">>),
     digMin |-> Ascii(<<"2">>), digMax |-> Ascii(<<"-", "2">>), nSamp |-> 1] >>

\* the 16-bit words of the data records, taken in turn
DataWords == <<0, 1, -1, 32767, -32768, 256, -2, 5>>

DataOf(nWords, shift) ==
    FlattenWords([k \in 1..nWords |-> DataWords[((k + shift) % Len(DataWords)) + 1]])

\* a file with the given header texts, the signals sg and the data bytes
FileBytes(hbT, nrecT, durT, nsT, sg, data) ==
    LET nSignals == Len(sg)
        hdr == 256 + 256 * nSignals
        PerSignal(s) == <<
            <<labelsOffset + 16 * (s - 1), FieldText(16, sg[s].label)>>,
            <<physMinOffset(nSignals) + 8 * (s - 1), FieldText(8, sg[s].physMin)>>,
            <<physMaxOffset(nSignals) + 8 * (s - 1), FieldText(8, sg[s].physMax)>>,
            <<digMinOffset(nSignals) + 8 * (s - 1), FieldText(8, sg[s].digMin)>>,
            <<digMaxOffset(nSignals) + 8 * (s - 1), FieldText(8, sg[s].digMax)>>,
            <<samplesPerRecordOffset(nSignals) + 8 * (s - 1),
              FieldText(8, IntegerText(sg[s].nSamp))>> >>
    IN  ApplyWrites(hdr + Len(data),
            << <<0, FieldText(hdr, << >>)>>,
               <<184, FieldText(8, hbT)>>, <<236, FieldText(8, nrecT)>>,
               <<244, FieldText(8, durT)>>, <<252, FieldText(4, nsT)>> >>
            \o Concat([s \in 1..nSignals |-> PerSignal(s)])
            \o <<<<hdr, data>>>>)

SignalsFrom(nSignals, o) ==
    [s \in 1..nSignals |-> SignalHeaders[((s + o) % Len(SignalHeaders)) + 1]]

WordsPerRecord(sg) == SumTo([s \in 1..Len(sg) |-> sg[s].nSamp], Len(sg))

\* well-formed headers over MaxRecords records of data, of which the last
\* cut bytes are missing
ValidFiles ==
    {FileBytes(IntegerText(256 + 256 * Len(sg)), nrecT, durT, IntegerText(Len(sg)), sg,
               SubSeq(DataOf(MaxRecords * WordsPerRecord(sg), shift), 1,
                      2 * MaxRecords * WordsPerRecord(sg) - cut)) :
        sg \in {SignalsFrom(n, o) : n \in 1..MaxSignals, o \in 0..3},
        nrecT \in {IntegerText(r) : r \in 0..MaxRecords},
        durT \in {Ascii(<<"1">>), Ascii(<<"0", ".", "5">>)},
        shift \in {0, 3},
        cut \in 0..3}

BadTexts ==
    {Ascii(<<"x", "x">>), << >>, Ascii(<<"I", "n", "f", "i", "n", "i", "t", "y">>),
     Ascii(<<"-", "1">>), Ascii(<<"0">>)}

\* a header length that stops short of the 256 bytes of the fixed header
ShortHeaderText == Ascii(<<"1", "2", "8">>)

\* a well-formed file in which one of the four primary header fields is bad
CorruptFiles ==
    {LET sg == SignalsFrom(n, 0)
         T(f, good) == IF f = fb[1] THEN fb[2] ELSE good
     IN  FileBytes(T(1, IntegerText(256 + 256 * n)), T(2, IntegerText(MaxRecords)),
                   T(3, Ascii(<<"1">>)), T(4, IntegerText(n)), sg,
                   DataOf(MaxRecords * WordsPerRecord(sg), 0)) :
        n \in 1..MaxSignals,
        fb \in ((1..4) \X BadTexts) \cup {<<1, ShortHeaderText>>}}


\* sample windows, in units: plain values, values off the thousandths grid,
\* a flat signal, and a signal shorter than the window
ViewSamples ==
    {<<0, 10000, 5000>>, <<4, 10004>>, <<20000, 20000>>, <<-10000, 3, 10000>>,
     <<1234, 20000, 7>>, <<0>>, << >>}

ViewChannels ==
    {[name |-> Ascii(<<"E", "E", "G">>), fs |-> f, samples |-> q] : f \in {1, 2}, q \in ViewSamples}
    \cup {[name |-> << >>, fs |-> 1, samples |-> <<0, 10000, 5000>>]}

ViewOptions ==
    {[channels |-> cs, channelIndices |-> ix, viewStartSec |-> st, viewDurationSec |-> du] :
        cs \in {<<c>> : c \in ViewChannels}
               \cup {<<c, d>> : c \in {k \in ViewChannels : k.fs = 1}, d \in {k \in ViewChannels : k.fs = 2}},
        ix \in {<<0>>, <<1, 0>>, <<3>>, << >>},
        st \in {0, Unit},
        du \in {Unit, 2 * Unit}}

(***************************************************************************)
(* The EDF runs: a file is parsed; a view is saved and the saved file is   *)
(* parsed again.                                                           *)
(***************************************************************************)
EInit ==
    /\ \/ /\ epc = "file"
          /\ opts = NoOpts
          /\ buf \in ValidFiles \cup CorruptFiles
       \/ /\ epc = "view"
          /\ opts \in ViewOptions
          /\ buf = << >>
    /\ rec = NoOut
    /\ VIdle /\ CIdle /\ DIdle /\ PIdle /\ AIdle

\* makeEdfFromView(options)
SaveView ==
    /\ epc = "view"
    /\ LET r == makeEdfFromView(opts)
       IN  IF r.threw THEN epc' = "threw" /\ rec' = r /\ buf' = buf
           ELSE epc' = "file" /\ buf' = r.buffer /\ rec' = rec
    /\ UNCHANGED opts
    /\ UNCHANGED <<vvars, cvars, dvars, pvars, avars>>

\* parseEdf(buffer)
ParseFile ==
    /\ epc = "file"
    /\ rec' = parseEdf(buf)
    /\ epc' = IF rec'.threw THEN "threw" ELSE "parsed"
    /\ UNCHANGED <<opts, buf>>
    /\ UNCHANGED <<vvars, cvars, dvars, pvars, avars>>

ENext == SaveView \/ ParseFile

SpecEdf == EInit /\ [][ENext]_vars


(***************************************************************************)
(* Claims about the EDF decoder and encoder.                               *)
(***************************************************************************)
Parsed == epc \in {"parsed", "threw"} /\ buf # << >>

FromDisk == opts = NoOpts

\* what Number() makes of the four primary header fields of the buffer
HeaderLengthField == ToNumber(readAscii(buf, 184, 8))
RecordCountField == ToNumber(readAscii(buf, 236, 8))
RecordSecondsField == ToNumber(readAscii(buf, 244, 8))
SignalCountField == ToNumber(readAscii(buf, 252, 4))

BadPrimaryField ==
    \/ \E f \in {HeaderLengthField, RecordCountField, RecordSecondsField, SignalCountField} :
          ~NumberIsFinite(f)
    \/ JsLe(SignalCountField, 0)
    \/ JsLe(RecordSecondsField, 0)
    \/ JsLt(HeaderLengthField, 256 * Unit)

\* C11: whenever a primary header field is not a finite number, or the
\* signal count or the seconds per record is not positive, or the header
\* length is below 256, parseEdf throws the invalid-header error and returns
\* no recording.
C11_BadHeaderIsRejected ==
    (Parsed /\ BadPrimaryField) => (rec.threw /\ rec.error = "Invalid EDF header")

\* the layout parseEdf derives from a buffer it accepts
LayoutOf(bytes) ==
    LET nSignals == IntOf(readNumber(bytes, 252, 4))
        spr == [s \in 1..nSignals |->
                  IntOf(readNumber(bytes, samplesPerRecordOffset(nSignals) + 8 * (s - 1), 8))]
        nrec == readNumber(bytes, 236, 8)
        hb == IntOf(readNumber(bytes, 184, 8))
        bpr == 2 * SumTo(spr, nSignals)
    IN  [nSignals |-> nSignals, spr |-> spr, hb |-> hb, bpr |-> bpr,
         records |-> IF JsLe(nrec, 0) THEN (Len(bytes) - hb) \div bpr ELSE IntOf(nrec)]

\* the byte offset of sample i of signal s in record r (all counted from 0)
WordOffset(lay, r, s, i) == lay.hb + r * lay.bpr + 2 * SumTo(lay.spr, s) + 2 * i

\* the sample positions of signal s whose two bytes lie inside the buffer
PresentWords(bytes, lay, s) ==
    {<<r, i>> \in (0..(lay.records - 1)) \X (0..(lay.spr[s + 1] - 1)) :
        WordOffset(lay, r, s, i) + 2 <= Len(bytes)}

Truncated(bytes, lay) ==
    \E s \in 0..(lay.nSignals - 1) :
        Cardinality(PresentWords(bytes, lay, s)) < lay.records * lay.spr[s + 1]

\* C12: a truncated file is parsed without error and every channel holds
\* exactly the samples whose bytes are present, with no placeholder entries
\* after them.
C12_TruncatedSamplesDropped ==
    (Parsed /\ FromDisk /\ ~BadPrimaryField /\ NumberIsFinite(RecordCountField)) =>
        /\ ~rec.threw
        /\ \A s \in 1..Len(rec.channels) :
              Len(rec.channels[s].samples) =
                  Cardinality(PresentWords(buf, LayoutOf(buf), s - 1))


\* the per-signal numbers of signal s (counted from 0) as the header gives them
SignalNumbers(bytes, lay, s) ==
    [physMin |-> readNumber(bytes, physMinOffset(lay.nSignals) + 8 * s, 8).v,
     physMax |-> readNumber(bytes, physMaxOffset(lay.nSignals) + 8 * s, 8).v,
     digMin |-> IntOf(readNumber(bytes, digMinOffset(lay.nSignals) + 8 * s, 8)),
     digMax |-> IntOf(readNumber(bytes, digMaxOffset(lay.nSignals) + 8 * s, 8))]

\* physMin + scale * (d - digMin) with scale = (physMax - physMin) / den, as
\* the fraction over den
ScaledValue(h, d, den) ==
    Rat(h.physMin * den + (h.physMax - h.physMin) * (d - h.digMin), den)

\* the k-th present sample position of signal s, in reading order
PresentAt(bytes, lay, s, k) ==
    CHOOSE p \in PresentWords(bytes, lay, s) :
        Cardinality({q \in PresentWords(bytes, lay, s) :
                        q[1] < p[1] \/ (q[1] = p[1] /\ q[2] < p[2])}) = k - 1

\* C13: every stored value of a digital value d is
\* physMin + scale * (d - digMin), scale = (physMax - physMin) / (digMax - digMin),
\* the denominator being 1 exactly when digMax = digMin.
C13_PhysicalScaling ==
    (Parsed /\ ~rec.threw) =>
        \A s \in 1..Len(rec.channels) :
            LET lay == LayoutOf(buf)
                h == SignalNumbers(buf, lay, s - 1)
                den == IF h.digMax = h.digMin THEN 1 ELSE h.digMax - h.digMin
            IN  \A k \in 1..Cardinality(PresentWords(buf, lay, s - 1)) :
                    LET p == PresentAt(buf, lay, s - 1, k)
                        d == getInt16(buf, WordOffset(lay, p[1], s - 1, p[2]))
                    IN  rec.channels[s].samples[k] = ScaledValue(h, d, den)

\* a file holding a signal with equal digital bounds was decoded
C13_Witness ==
    /\ Parsed /\ ~rec.threw /\ FromDisk
    /\ \E s \in 1..Len(rec.channels) :
          LET lay == LayoutOf(buf)
              h == SignalNumbers(buf, lay, s - 1)
          IN  /\ h.digMax = h.digMin
              /\ h.physMax # h.physMin
              /\ \E k \in 1..Cardinality(PresentWords(buf, lay, s - 1)) :
                    rec.channels[s].samples[k].n # h.physMin

\* the channels makeEdfFromView keeps, and the window it cuts of each
KeptChannels ==
    SelectSeq([k \in 1..Len(opts.channelIndices) |->
                  IF opts.channelIndices[k] < Len(opts.channels)
                  THEN opts.channels[opts.channelIndices[k] + 1]
                  ELSE [name |-> << >>, fs |-> 0, samples |-> << >>]],
              LAMBDA c : c.fs # 0)

WindowSeconds ==
    Least({opts.viewDurationSec} \cup
          {LET c == KeptChannels[s]
               st == (opts.viewStartSec * c.fs) \div Unit
           IN  IF st < Len(c.samples) THEN ((Len(c.samples) - st) * Unit) \div c.fs ELSE 0 :
           s \in 1..Len(KeptChannels)})

WindowOf(s) ==
    LET c == KeptChannels[s]
        st == (opts.viewStartSec * c.fs) \div Unit
        n == Max2(1, Min2(Len(c.samples) - st, (WindowSeconds * c.fs) \div Unit))
    IN  SubSeq(c.samples, st + 1, st + n)

RoundTripped == epc \in {"parsed", "threw"} /\ ~FromDisk /\ buf # << >>

\* C14: a saved view decodes to as many channels and samples as the window
\* holds, and every decoded sample is within one quantization step,
\* (max - min) / 65535 of the channel's window, of the original.
C14_RoundTrip ==
    RoundTripped =>
        /\ ~rec.threw
        /\ Len(rec.channels) = Len(KeptChannels)
        /\ \A s \in 1..Len(KeptChannels) :
              LET w == WindowOf(s)
                  out == rec.channels[s].samples
              IN  /\ Len(out) = Len(w)
                  /\ \A k \in 1..Len(w) :
                        /\ out[k].d = 65535
                        /\ Abs(out[k].n - w[k] * 65535) <= SegMax(w) - SegMin(w)


(***************************************************************************)
(* fftRadix2 (yasa_dsp.js) and fftRadix2Real (sleep_stage_features.js).    *)
(* The arrays are typed arrays of JS numbers: a read past the end yields   *)
(* undefined, a write past the end is ignored, undefined stored in a slot  *)
(* is NaN.  Lengths stay below 8, so every twiddle factor is 1 or -i and   *)
(* the transform is computed exactly on integers.                          *)
(***************************************************************************)
MaxFft == 6      \* longest array handed to an FFT

VSub(a, b) == IF a.tag = "num" /\ b.tag = "num" THEN Num(a.v - b.v) ELSE NaN

\* typedArray[i] = v
SetAt(arr, i, v) ==
    IF i + 1 \in DOMAIN arr
    THEN [arr EXCEPT ![i + 1] = IF v.tag = "undef" THEN NaN ELSE v]
    ELSE arr

\* n >> 1 and n << 1
Shr(n) == n \div 2
Shl(n) == 2 * n

\* while (m >= 1 && j >= m) { j -= m; m >>= 1; }  j += m
RECURSIVE NextReversed(_, _)
NextReversed(j, m) == IF m >= 1 /\ j >= m THEN NextReversed(j - m, Shr(m)) ELSE j + m

\* the bit-reversal loop from index i on
RECURSIVE BitReversal(_, _, _)
BitReversal(a, i, j) ==
    LET n == Len(a.re)
    IN  IF i >= n THEN a
        ELSE LET b == IF i < j
                      THEN [re |-> SetAt(SetAt(a.re, i, At(a.re, j)), j, At(a.re, i)),
                            im |-> SetAt(SetAt(a.im, i, At(a.im, j)), j, At(a.im, i))]
                      ELSE a
             IN  BitReversal(b, i + 1, NextReversed(j, Shr(n)))

\* the twiddle factor exp(-2 pi i k / len) for len 2 and 4
Twiddle(len, k) ==
    IF k = 0 THEN [re |-> Num(1), im |-> Num(0)] ELSE [re |-> Num(0), im |-> Num(-1)]

\* one butterfly: the slots i + k and i + k + half
Butterfly(a, len, i, k) ==
    LET half == Shr(len)
        w == Twiddle(len, k)
        uRe == At(a.re, i + k)
        uIm == At(a.im, i + k)
        vr == At(a.re, i + k + half)
        vi == At(a.im, i + k + half)
        vRe == VSub(VMul(vr, w.re), VMul(vi, w.im))
        vIm == VAdd(VMul(vr, w.im), VMul(vi, w.re))
    IN  [re |-> SetAt(SetAt(a.re, i + k, VAdd(uRe, vRe)), i + k + half, VSub(uRe, vRe)),
         im |-> SetAt(SetAt(a.im, i + k, VAdd(uIm, vIm)), i + k + half, VSub(uIm, vIm))]

\* the butterfly loops from (len, i, k) on
RECURSIVE Butterflies(_, _, _, _)
Butterflies(a, len, i, k) ==
    LET n == Len(a.re)
    IN  IF len > n THEN a
        ELSE IF i >= n THEN Butterflies(a, Shl(len), 0, 0)
        ELSE IF k >= Shr(len) THEN Butterflies(a, len, i + len, 0)
        ELSE Butterflies(Butterfly(a, len, i, k), len, i, k + 1)

\* fftRadix2(re, im): the arrays after the call; it has no error path
fftRadix2(re, im) ==
    [threw |-> FALSE] @@ Butterflies(BitReversal([re |-> re, im |-> im], 0, 0), 2, 0, 0)

\* fftRadix2Real(x, nfft): x copied into a zeroed array of nfft slots, transformed
fftRadix2Real(x, nfft) ==
    fftRadix2([i \in 1..nfft |-> IF i <= Len(x) THEN x[i] ELSE Num(0)],
              [i \in 1..nfft |-> Num(0)])

FftValues == {Num(0), Num(1), Num(3)}

FftArrays == UNION {[1..n -> FftValues] : n \in 0..MaxFft}


(***************************************************************************)
(* windowEpochs (yasa_features.js), predictHypnogram                       *)
(* (hypnogram_pipeline.js) and runFromSamples (sleep_bundle.js).  The      *)
(* sampling rate is fsQ quarters of a hertz, so fs * epochSec is the       *)
(* fraction fsQ * epochSec / 4.                                            *)
(***************************************************************************)
MaxSamples == 7      \* longest signal handed to the epoch cutters

\* an epoch length rounded to the nearest sample
SamplesPerEpoch_rounded(fsQ, epochSec) == RoundDiv(fsQ * epochSec, 4)

\* Math.floor(fs * epochSec)
SamplesPerEpoch(fsQ, epochSec) == (fsQ * epochSec) \div 4

\* an epoch count that keeps the trailing remainder
EpochCount_ceil(N, nPer) == (N + nPer - 1) \div nPer

\* Math.floor(x.length / nPer), nPer > 0
EpochCount(N, nPer) == N \div nPer

\* the first sample of epoch e (counted from 0)
EpochStart(e, nPer) == e * nPer

\* windowEpochs(x, fs, epochSec); new Array(Infinity) and new Array(NaN) throw
windowEpochs(x, fsQ, epochSec) ==
    LET nPer == SamplesPerEpoch(fsQ, epochSec)
    IN  IF nPer = 0 THEN [threw |-> TRUE, error |-> "RangeError"]
        ELSE [threw |-> FALSE,
              epochs |-> [e \in 1..EpochCount(Len(x), nPer) |->
                            [i \in 1..nPer |->
                                LET v == At(x, EpochStart(e - 1, nPer) + i - 1)
                                IN  IF v.tag = "undef" THEN NaN ELSE v]]]

\* samples.slice(start, stop)
SliceOf(samples, start, stop) ==
    SubSeq(samples, Min2(start, Len(samples)) + 1, Min2(stop, Len(samples)))

\* computeFeatures(epoch, fs) is a function of the epoch; its value stands
\* for the feature map
computeFeatures(epoch) == [epoch |-> epoch]

\* the classifier handed to predictHypnogram: a label and a probability row
\* that depend on the features only
RECURSIVE SumValues(_)
SumValues(q) == IF q = << >> THEN 0 ELSE Head(q).v + SumValues(Tail(q))

ClassifierLabels == <<"W", "N1", "N2", "N3", "REM">>

StubPredict(f) ==
    LET best == (SumValues(f.epoch) % 5) + 1
    IN  [predLabel |-> ClassifierLabels[best],
         probs |-> [k \in 1..5 |-> IF k = best THEN 1000 ELSE 0]]

\* predictHypnogram(samples, fs, predictFromFeatures, epochLenSec); epochs is
\* the list of epochs handed to computeFeatures, kept to state the claims
predictHypnogram(samples, fsQ, epochLenSec) ==
    LET samplesPerEpoch == SamplesPerEpoch(fsQ, epochLenSec)
    IN  IF samplesPerEpoch = 0 THEN [threw |-> TRUE, error |-> "RangeError"]
        ELSE LET nEpochs == EpochCount(Len(samples), samplesPerEpoch)
                 epoch(e) == SliceOf(samples, EpochStart(e - 1, samplesPerEpoch),
                                     EpochStart(e - 1, samplesPerEpoch) + samplesPerEpoch)
                 out(e) == StubPredict(computeFeatures(epoch(e)))
             IN  [threw |-> FALSE,
                  stages |-> [e \in 1..nEpochs |-> [tag |-> "str", s |-> out(e).predLabel]],
                  probs |-> [e \in 1..nEpochs |-> out(e).probs],
                  epochs |-> [e \in 1..nEpochs |-> epoch(e)]]

\* LucidifySleepStage.runFromSamples(samples, fs, epochSec): the same loop
\* around the embedded model
runFromSamples(samples, fsQ, epochSec) == predictHypnogram(samples, fsQ, epochSec)

\* signals whose samples are all different, so that an epoch shows where it was cut
Signals == {[i \in 1..n |-> Num(i)] : n \in 0..MaxSamples}

SamplingRatesQ == {1, 2, 4, 5, 6, 7, 8, 10}

EpochSeconds == {1, 2, 3}


(***************************************************************************)
(* buildFeatureTable (yasa_features.js).  A feature name is its text as    *)
(* character codes, compared as JavaScript compares strings.  The numeric  *)
(* value of a feature is not computed: the value of column j of epoch t of *)
(* the unsorted table is the token ValueToken(t, j).                       *)
(***************************************************************************)
MaxEpochs == 2       \* most epochs of a feature table

BaseNames ==
    <<Ascii(<<"s", "t", "d">>),
      Ascii(<<"i", "q", "r">>),
      Ascii(<<"s", "k", "e", "w">>),
      Ascii(<<"k", "u", "r", "t">>),
      Ascii(<<"n", "z", "c">>),
      Ascii(<<"h", "m", "o", "b">>),
      Ascii(<<"h", "c", "o", "m", "p">>)>>

BandNames ==
    <<Ascii(<<"s", "d", "e", "l", "t", "a">>),
      Ascii(<<"f", "d", "e", "l", "t", "a">>),
      Ascii(<<"t", "h", "e", "t", "a">>),
      Ascii(<<"a", "l", "p", "h", "a">>),
      Ascii(<<"s", "i", "g", "m", "a">>),
      Ascii(<<"b", "e", "t", "a">>)>>

RatioNames ==
    <<Ascii(<<"d", "t">>),
      Ascii(<<"d", "s">>),
      Ascii(<<"d", "b">>),
      Ascii(<<"a", "t">>)>>

ExtraNames ==
    <<Ascii(<<"a", "b", "s", "p", "o", "w">>),
      Ascii(<<"p", "e", "r", "m">>),
      Ascii(<<"h", "i", "g", "u", "c", "h", "i">>),
      Ascii(<<"p", "e", "t", "r", "o", "s", "i", "a", "n">>)>>

\* the names extractChannelFeatures returns for a channel type
ChannelFeatureNames(chType) ==
    BaseNames \o (IF chType # "emg" THEN BandNames ELSE << >>)
    \o (IF chType = "eeg" THEN RatioNames ELSE << >>) \o ExtraNames

TypeText(chType) ==
    CASE chType = "eeg" -> Ascii(<<"e", "e", "g">>)
      [] chType = "eog" -> Ascii(<<"e", "o", "g">>)
      [] chType = "emg" -> Ascii(<<"e", "m", "g">>)

SuffixC == Ascii(<<"_", "c", "7", "m", "i", "n", "_", "n", "o", "r", "m">>)
SuffixP == Ascii(<<"_", "p", "2", "m", "i", "n", "_", "n", "o", "r", "m">>)

\* a < b on strings: the first differing code unit decides, a proper prefix is smaller
RECURSIVE StringLess(_, _)
StringLess(a, b) ==
    IF b = << >> THEN FALSE
    ELSE IF a = << >> THEN TRUE
    ELSE IF Head(a) # Head(b) THEN Head(a) < Head(b)
    ELSE StringLess(Tail(a), Tail(b))

sortFeatureNames(names) == SortSeq(names, StringLess)

\* a lookup that yields the index after the one of the name
NameToIdx_shifted(finalNames, name) ==
    LET i == CHOOSE k \in 1..Len(finalNames) : finalNames[k] = name
    IN  (i % Len(finalNames)) + 1

\* new Map(finalNames.map((n, i) => [n, i])).get(name): the last index of the name
NameToIdx(finalNames, name) ==
    Greatest({i \in 1..Len(finalNames) : finalNames[i] = name})

ValueToken(t, j) == 1000 * t + j

\* metadata && Number.isFinite(metadata.age)
HasAge(metadata) == metadata.given /\ NumberIsFinite(metadata.age)

\* metadata && (male === 0 || male === 1 || male === true || male === false)
HasMale(metadata) == metadata.given /\ metadata.male \in {"0", "1", "true", "false"}

\* buildFeatureTable(signals, fs, epochSec, metadata, dsp); signals.has is
\* the set of channel types supplied, and finalNames, the unsorted names, is
\* returned along to state the claims
buildFeatureTable(signals, fsQ, epochSec, metadata) ==
    LET chOrder == SelectSeq(<<"eeg", "eog", "emg">>, LAMBDA c : c \in signals.has)
    IN  IF chOrder = << >> THEN [threw |-> TRUE, error |-> "TypeError"]   \* chEpochs[0][1]
        ELSE
        LET first == windowEpochs(signals[chOrder[1]], fsQ, epochSec)
        IN  IF first.threw THEN first
            ELSE IF first.epochs = << >> THEN [threw |-> TRUE, error |-> "TypeError"]   \* matrix[0].length
            ELSE
            LET T == Len(first.epochs)
                allNames == Concat([c \in 1..Len(chOrder) |->
                               LET nm == ChannelFeatureNames(chOrder[c])
                               IN  [k \in 1..Len(nm) |-> TypeText(chOrder[c]) \o <<95>> \o nm[k]]])
                finalNames ==
                    allNames
                    \o [k \in 1..Len(allNames) |-> allNames[k] \o SuffixC]
                    \o [k \in 1..Len(allNames) |-> allNames[k] \o SuffixP]
                    \o <<Ascii(<<"t", "i", "m", "e", "_", "h", "o", "u", "r">>),
                         Ascii(<<"t", "i", "m", "e", "_", "n", "o", "r", "m">>)>>
                    \o (IF HasAge(metadata) THEN <<Ascii(<<"a", "g", "e">>)>> ELSE << >>)
                    \o (IF HasMale(metadata) THEN <<Ascii(<<"m", "a", "l", "e">>)>> ELSE << >>)
                finalMat == [t \in 1..T |-> [j \in 1..Len(finalNames) |-> ValueToken(t, j)]]
                sortedNames == sortFeatureNames(finalNames)
            IN  [threw |-> FALSE,
                 featureNames |-> sortedNames,
                 X |-> [t \in 1..T |->
                          [i \in 1..Len(sortedNames) |->
                              finalMat[t][NameToIdx(finalNames, sortedNames[i])]]],
                 finalNames |-> finalNames]

Metadatas ==
    {[given |-> FALSE, age |-> Undef, male |-> "undefined"]}
    \cup {[given |-> TRUE, age |-> a, male |-> ml] :
            a \in {Num(30), NaN, Undef}, ml \in {"0", "true", "undefined", "2"}}

\* the channels supplied with the EEG
SignalSets ==
    {[eeg |-> x, eog |-> x, emg |-> x, has |-> {"eeg"} \cup more] :
        x \in {q \in Signals : Len(q) <= 2 * MaxEpochs}, more \in SUBSET {"eog", "emg"}}


(***************************************************************************)
(* robustScaleColumn and robustScaleMatrixCols (yasa_features.js).         *)
(* Columns hold integers; a quantile is kept as twenty times its value, so *)
(* the quantiles 0.05, 0.5 and 0.95 are exact.                             *)
(***************************************************************************)
MaxColumn == 5       \* longest column handed to the robust scaler

\* Array.from(col).sort((a, b) => a - b)
SortNumbers(col) == SortSeq(col, LAMBDA a, b : a < b)

\* twenty times quantileSorted(sorted, q20 / 20), sorted not empty
quantileSorted(sorted, q20) ==
    LET pos20 == (Len(sorted) - 1) * q20
        base == pos20 \div 20
        rest20 == pos20 % 20
    IN  IF base + 2 > Len(sorted) THEN 20 * sorted[base + 1]
        ELSE 20 * sorted[base + 1] + rest20 * (sorted[base + 2] - sorted[base + 1])

\* a lower quantile of one quarter
QLow_quarter == 20 \div 4

\* the qLow and qHigh of robustScaleMatrixCols, in twentieths
QLow == 1
QHigh == 19

\* robustScaleColumn(col, qLow, qHigh): each value as the fraction n / d
robustScaleColumn(col, qLow, qHigh) ==
    IF col = << >> THEN << >>
    ELSE LET s == SortNumbers(col)
             med == quantileSorted(s, 10)
             lo == quantileSorted(s, qLow)
             hi == quantileSorted(s, qHigh)
             scale == IF hi - lo = 0 THEN 20 ELSE hi - lo
         IN  [i \in 1..Len(col) |-> Rat(20 * col[i] - med, scale)]

\* robustScaleMatrixCols(matrix), matrix[t][d]; matrix[0].length of an empty matrix throws
robustScaleMatrixCols(matrix) ==
    IF matrix = << >> THEN [threw |-> TRUE, error |-> "TypeError"]
    ELSE LET T == Len(matrix)
             D == Len(matrix[1])
             cols == [d \in 1..D |->
                        robustScaleColumn([t \in 1..T |-> matrix[t][d]], QLow, QHigh)]
         IN  [threw |-> FALSE, out |-> [t \in 1..T |-> [d \in 1..D |-> cols[d][t]]]]

ColumnValues == {0, 1, 2, 7}

Columns == UNION {[1..n -> ColumnValues] : n \in 1..MaxColumn}

\* matrices of two columns: the second is the first one reversed
Matrices ==
    {[t \in 1..Len(c) |-> <<c[t], c[Len(c) + 1 - t]>>] : c \in Columns} \cup {<< >>}


(***************************************************************************)
(* LucidifyYasaSleepStage.runFromSamples (yasa_sleep_stage.js).  stageYASA *)
(* belongs to yasa_staging.js; its result is an input of the run: one      *)
(* probability row per epoch and, when it names them, one class name per   *)
(* epoch out of the classNames it was given.                               *)
(***************************************************************************)
YasaClassNames == <<"W", "N1", "N2", "N3", "R">>

\* argmaxRow(p), p not empty
RECURSIVE ArgmaxFrom(_, _, _)
ArgmaxFrom(p, i, best) ==
    IF i > Len(p) THEN best
    ELSE ArgmaxFrom(p, i + 1, IF p[i] > p[best] THEN i ELSE best)

argmaxRow(p) == ArgmaxFrom(p, 2, 1) - 1

stageNameToId(stageName) ==
    CASE stageName = "W" -> 0 [] stageName = "N1" -> 1 [] stageName = "N2" -> 2
      [] stageName = "N3" -> 3 [] stageName = "R" -> 4 [] OTHER -> 0

\* runFromSamples(samples, fs, opts) once stageYASA has returned result
yasaRunFromSamples(loaded, result) ==
    IF ~loaded THEN [threw |-> TRUE, error |-> "YASA_STAGE.stageYASA not found"]
    ELSE [threw |-> FALSE,
          stages |-> [i \in 1..Len(result.probs) |->
                        Num(IF i <= Len(result.stages)
                            THEN stageNameToId(result.stages[i])
                            ELSE argmaxRow(result.probs[i]))],
          probs |-> result.probs]

ProbRows ==
    {<<1000, 0, 0, 0, 0>>, <<100, 200, 400, 200, 100>>, <<0, 0, 0, 500, 500>>,
     <<0, 0, 0, 0, 1000>>, <<200, 200, 200, 200, 200>>}

\* what stageYASA returns: rows, and the name of each row's class or no names
StageYasaResults ==
    {[probs |-> p, stages |-> IF named THEN [i \in 1..Len(p) |-> YasaClassNames[argmaxRow(p[i]) + 1]]
                              ELSE << >>] :
        p \in UNION {[1..n -> ProbRows] : n \in 0..MaxEpochs}, named \in BOOLEAN}

(***************************************************************************)
(* softmaxRow (yasa_lgbm.js) and softmaxStable (sleep_stage_features.js)   *)
(* on JavaScript numbers.  A score is a whole number of units, Math.exp is *)
(* kept in thousandths, and a probability is the fraction n / d.           *)
(***************************************************************************)
MaxScores == 3       \* longest score vector handed to a softmax

IsNaNLike(a) == a.tag \in {"nan", "undef"}

\* a - b
Minus(a, b) ==
    IF IsNaNLike(a) \/ IsNaNLike(b) THEN NaN
    ELSE IF a.tag = "num" /\ b.tag = "num" THEN Num(a.v - b.v)
    ELSE IF a.tag = "num" THEN (IF b.tag = "pinf" THEN NegInfV ELSE PosInf)
    ELSE IF b.tag = "num" THEN a
    ELSE IF a.tag = b.tag THEN NaN ELSE a

\* a + b
Plus(a, b) ==
    IF IsNaNLike(a) \/ IsNaNLike(b) THEN NaN
    ELSE IF a.tag = "num" /\ b.tag = "num" THEN Num(a.v + b.v)
    ELSE IF a.tag = "num" THEN b
    ELSE IF b.tag = "num" THEN a
    ELSE IF a.tag = b.tag THEN a ELSE NaN

\* Math.max(a, b)
MathMax(a, b) ==
    IF IsNaNLike(a) \/ IsNaNLike(b) THEN NaN
    ELSE IF a.tag = "pinf" \/ b.tag = "pinf" THEN PosInf
    ELSE IF a.tag = "ninf" THEN b
    ELSE IF b.tag = "ninf" THEN a
    ELSE Num(Max2(a.v, b.v))

\* Math.exp of positive whole numbers, in thousandths
ExpUpTable == <<2718, 7389, 20086, 54598, 148413, 403429, 1096633, 2980958>>

\* Math.exp(d), in thousandths
MathExp(d) ==
    IF IsNaNLike(d) THEN NaN
    ELSE IF d.tag = "ninf" THEN Num(0)
    ELSE IF d.tag = "pinf" THEN PosInf
    ELSE IF d.v <= 0 THEN Num(ExpQ(d.v))
    ELSE IF d.v \in DOMAIN ExpUpTable THEN Num(ExpUpTable[d.v])
    ELSE PosInf

NaNProb == [tag |-> "nan", n |-> 0, d |-> 1]

\* e / sum of two numbers that are not negative
Quot(e, sum) ==
    IF IsNaNLike(e) \/ IsNaNLike(sum) THEN NaNProb
    ELSE IF e.tag = "num" /\ sum.tag = "num" THEN
        (IF sum.v # 0 THEN [tag |-> "num", n |-> e.v, d |-> sum.v]
         ELSE IF e.v = 0 THEN NaNProb ELSE [tag |-> "pinf", n |-> 0, d |-> 1])
    ELSE IF e.tag = "num" THEN [tag |-> "num", n |-> 0, d |-> 1]
    ELSE IF sum.tag = "num" THEN [tag |-> "pinf", n |-> 0, d |-> 1]
    ELSE NaNProb

RECURSIVE RowMaxFrom(_, _, _)
RowMaxFrom(scores, i, maxv) ==
    IF i > Len(scores) THEN maxv
    ELSE RowMaxFrom(scores, i + 1, MathMax(maxv, scores[i]))

\* a maximum that starts from 0
RowMax_fromZero(scores) == RowMaxFrom(scores, 1, Num(0))

\* let maxv = -Infinity; for (...) maxv = Math.max(maxv, scores[i])
RowMax(scores) == RowMaxFrom(scores, 1, NegInfV)

RECURSIVE SumExps(_, _)
SumExps(exps, i) == IF i = 0 THEN Num(0) ELSE Plus(SumExps(exps, i - 1), exps[i])

\* softmaxRow(scores)
softmaxRow(scores) ==
    LET maxv == RowMax(scores)
        exps == [i \in 1..Len(scores) |-> MathExp(Minus(scores[i], maxv))]
        sum == SumExps(exps, Len(exps))
        divisor == IF IsNaNLike(sum) \/ (sum.tag = "num" /\ sum.v = 0)
                   THEN Num(1000) ELSE sum          \* sum || 1
    IN  [i \in 1..Len(scores) |-> Quot(exps[i], divisor)]

\* a > b
Greater(a, b) ==
    /\ ~IsNaNLike(a) /\ ~IsNaNLike(b)
    /\ \/ a.tag = "pinf" /\ b.tag # "pinf"
       \/ b.tag = "ninf" /\ a.tag # "ninf"
       \/ a.tag = "num" /\ b.tag = "num" /\ a.v > b.v

RECURSIVE StableMaxFrom(_, _, _)
StableMaxFrom(logits, i, max) ==
    IF i > Len(logits) THEN max
    ELSE StableMaxFrom(logits, i + 1, IF Greater(logits[i], max) THEN logits[i] ELSE max)

\* softmaxStable(logits)
softmaxStable(logits) ==
    LET max == StableMaxFrom(logits, 2, At(logits, 0))
        exps == [i \in 1..Len(logits) |-> MathExp(Minus(logits[i], max))]
        sum == SumExps(exps, Len(exps))
        divisor == IF sum.tag = "ninf" \/ (sum.tag = "num" /\ sum.v <= 0)
                   THEN Num(1000) ELSE sum          \* if (sum <= 0) sum = 1
    IN  [i \in 1..Len(logits) |-> Quot(exps[i], divisor)]

ScoreValues == {Num(0), Num(-1), Num(2), Num(-9), NaN, PosInf, NegInfV}

ScoreVectors == UNION {[1..n -> ScoreValues] : n \in 0..MaxScores}

(***************************************************************************)
(* Band power: bandpowerFromPxx (yasa_dsp.js, exported as trapzBand) and   *)
(* bandpower (sleep_stage_features.js).  Frequencies are in half-hertz, a  *)
(* power is returned as eight times its value.                             *)
(***************************************************************************)
MaxBins == 4         \* most bins of a spectrum

\* clamp(x, lo, hi)
clamp(x, lo, hi) == Min2(Max2(x, lo), hi)

\* the running sum s of bandpowerFromPxx over the bin pairs i, i + 1 (from 0)
RECURSIVE TrapzFrom(_, _, _, _, _)
TrapzFrom(freqs, pxx, lo, hi, i) ==
    IF i >= Len(freqs) - 1 THEN 0
    ELSE LET f0 == freqs[i + 1]
             f1 == freqs[i + 2]
             a0 == clamp(f0, lo, hi)
             a1 == clamp(f1, lo, hi)
             w == a1 - a0
             den == IF f1 - f0 # 0 THEN f1 - f0 ELSE 1
             \* den times the interpolated values p0 and p1
             p0 == pxx[i + 1] * den + (pxx[i + 2] - pxx[i + 1]) * (a0 - f0)
             p1 == pxx[i + 1] * den + (pxx[i + 2] - pxx[i + 1]) * (a1 - f0)
             rest == TrapzFrom(freqs, pxx, lo, hi, i + 1)
         IN  IF f1 < lo \/ f0 > hi \/ w <= 0 THEN rest
             ELSE ((p0 + p1) * w * 2) \div den + rest

\* bandpowerFromPxx(freqs, pxx, fmin, fmax)
bandpowerFromPxx(freqs, pxx, fmin, fmax) ==
    TrapzFrom(freqs, pxx, Min2(fmin, fmax), Max2(fmin, fmax), 0)

\* trapezoidIntegral(y, x, i0, i1), indices from 0
RECURSIVE trapezoidIntegral(_, _, _, _)
trapezoidIntegral(y, x, i0, i1) ==
    IF i0 >= i1 THEN 0
    ELSE 2 * (y[i0 + 1] + y[i0 + 2]) * (x[i0 + 2] - x[i0 + 1])
            + trapezoidIntegral(y, x, i0 + 1, i1)

\* bandpower(psd, freqs, fmin, fmax)
bandpower(psd, freqs, fmin, fmax) ==
    LET from == {i \in 0..(Len(freqs) - 1) : freqs[i + 1] >= fmin}
        below == {i \in 0..(Len(freqs) - 1) : freqs[i + 1] < fmax}
        i0 == IF from = {} THEN -1 ELSE Least(from)
        i1 == IF below = {} THEN -1 ELSE Greatest(below)
    IN  IF i0 < 0 \/ i1 <= i0 THEN 0 ELSE trapezoidIntegral(psd, freqs, i0, i1)

\* spectra on the frequencies 0, 1, 2, ... Hz
PsdValues == {0, 1, 3}

Spectra == UNION {[1..n -> PsdValues] : n \in 2..MaxBins}

FreqsOf(n) == [k \in 1..n |-> 2 * (k - 1)]

\* band edges, in half-hertz
BandEdges == 0..6

(***************************************************************************)
(* rollingTriangCentered (yasa_features.js).  A weight is kept as its      *)
(* numerator over denom = mid + 1, a mean as the fraction acc / wsum.      *)
(***************************************************************************)
MaxRoll == 16        \* most epochs of a smoothed matrix

\* the L of rollingTriangCentered(base, 15)
RollLength == 15

\* a window in which every epoch weighs the same
TriangWeight_flat(L, i) == 1

\* triangWeights(L)[i] times denom: denom - Math.abs(i - mid)
TriangWeight(L, i) ==
    LET mid == (L - 1) \div 2
        denom == mid + 1
    IN  denom - Abs(i - mid)

\* acc and wsum after the offsets k..L-1 of epoch t, column d (all from 0)
RECURSIVE RollAcc(_, _, _, _, _)
RollAcc(matrix, L, t, d, k) ==
    IF k >= L THEN [acc |-> 0, wsum |-> 0]
    ELSE LET tt == t + (k - Shr(L - 1))
             rest == RollAcc(matrix, L, t, d, k + 1)
         IN  IF tt < 0 \/ tt >= Len(matrix) THEN rest
             ELSE [acc |-> matrix[tt + 1][d + 1] * TriangWeight(L, k) + rest.acc,
                   wsum |-> TriangWeight(L, k) + rest.wsum]

\* rollingTriangCentered(matrix, L); matrix[0].length of an empty matrix throws
rollingTriangCentered(matrix, L) ==
    IF matrix = << >> THEN [threw |-> TRUE, error |-> "TypeError"]
    ELSE [threw |-> FALSE,
          out |-> [t \in 1..Len(matrix) |->
                     [d \in 1..Len(matrix[1]) |->
                         LET r == RollAcc(matrix, L, t - 1, d - 1, 0)
                         IN  [n |-> r.acc, d |-> IF r.wsum # 0 THEN r.wsum ELSE 1]]]]

\* columns of T epochs: constant, rising, and a single peak at epoch p
RollColumns(T) ==
    {[t \in 1..T |-> c] : c \in {1, 3}}
    \cup {[t \in 1..T |-> t]}
    \cup {[t \in 1..T |-> IF t = p THEN 8 ELSE 0] : p \in 1..T}

\* matrices of two columns, the second one constant
RollMatrices ==
    {<< >>} \cup UNION {{[t \in 1..T |-> <<col[t], 3>>] : col \in RollColumns(T)} : T \in 1..MaxRoll}

(***************************************************************************)
(* The signal-processing and staging runs: one call of one function.       *)
(***************************************************************************)
DInit ==
    /\ \/ /\ dspFn = "fftRadix2"
          /\ dspArg \in {[re |-> a, im |-> b] : a \in FftArrays,
                            b \in {[i \in 1..n |-> Num(0)] : n \in 0..MaxFft}
                                  \cup {[i \in 1..n |-> Num(1)] : n \in 0..MaxFft}}
          /\ Len(dspArg.re) = Len(dspArg.im)
       \/ /\ dspFn = "fftRadix2Real"
          /\ dspArg \in {[x |-> a, nfft |-> n] :
                            a \in {q \in FftArrays : Len(q) <= 3}, n \in 0..MaxFft}
       \/ /\ dspFn \in {"windowEpochs", "predictHypnogram", "runFromSamples"}
          /\ dspArg \in {[x |-> q, fsQ |-> f, epochSec |-> s] :
                            q \in Signals, f \in SamplingRatesQ, s \in EpochSeconds}
       \/ /\ dspFn = "buildFeatureTable"
          /\ dspArg \in {[signals |-> sg, fsQ |-> 8, epochSec |-> 1, metadata |-> md] :
                            sg \in SignalSets, md \in Metadatas}
       \/ /\ dspFn = "robustScaleMatrixCols"
          /\ dspArg \in {[matrix |-> mx] : mx \in Matrices}
       \/ /\ dspFn = "yasaRunFromSamples"
          /\ dspArg \in {[loaded |-> l, result |-> r] : l \in BOOLEAN, r \in StageYasaResults}
       \/ /\ dspFn \in {"softmaxRow", "softmaxStable"}
          /\ dspArg \in {[scores |-> q] : q \in ScoreVectors}
       \/ /\ dspFn \in {"bandpowerFromPxx", "bandpower"}
          /\ dspArg \in {[psd |-> q, freqs |-> FreqsOf(Len(q)), fmin |-> lo, fmax |-> hi] :
                            q \in Spectra, lo \in BandEdges, hi \in BandEdges}
          /\ dspArg.fmin <= dspArg.fmax
       \/ /\ dspFn = "rollingTriangCentered"
          /\ dspArg \in {[matrix |-> mx, L |-> RollLength] : mx \in RollMatrices}
    /\ dspRet = NoOut
    /\ dpc = "input"
    /\ VIdle /\ CIdle /\ EIdle /\ PIdle /\ AIdle

\* fftRadix2(re, im)
Fft ==
    /\ dpc = "input"
    /\ dspFn = "fftRadix2"
    /\ dspRet' = fftRadix2(dspArg.re, dspArg.im)
    /\ dpc' = "done"
    /\ UNCHANGED <<dspFn, dspArg>>
    /\ UNCHANGED <<vvars, cvars, evars, pvars, avars>>

\* fftRadix2Real(x, nfft)
FftReal ==
    /\ dpc = "input"
    /\ dspFn = "fftRadix2Real"
    /\ dspRet' = fftRadix2Real(dspArg.x, dspArg.nfft)
    /\ dpc' = "done"
    /\ UNCHANGED <<dspFn, dspArg>>
    /\ UNCHANGED <<vvars, cvars, evars, pvars, avars>>

\* windowEpochs(x, fs, epochSec)
WindowEpochs ==
    /\ dpc = "input"
    /\ dspFn = "windowEpochs"
    /\ dspRet' = windowEpochs(dspArg.x, dspArg.fsQ, dspArg.epochSec)
    /\ dpc' = "done"
    /\ UNCHANGED <<dspFn, dspArg>>
    /\ UNCHANGED <<vvars, cvars, evars, pvars, avars>>

\* predictHypnogram(samples, fs, predictFromFeatures, epochLenSec)
PredictHypnogram ==
    /\ dpc = "input"
    /\ dspFn = "predictHypnogram"
    /\ dspRet' = predictHypnogram(dspArg.x, dspArg.fsQ, dspArg.epochSec)
    /\ dpc' = "done"
    /\ UNCHANGED <<dspFn, dspArg>>
    /\ UNCHANGED <<vvars, cvars, evars, pvars, avars>>

\* LucidifySleepStage.runFromSamples(samples, fs, epochSec)
RunFromSamples ==
    /\ dpc = "input"
    /\ dspFn = "runFromSamples"
    /\ dspRet' = runFromSamples(dspArg.x, dspArg.fsQ, dspArg.epochSec)
    /\ dpc' = "done"
    /\ UNCHANGED <<dspFn, dspArg>>
    /\ UNCHANGED <<vvars, cvars, evars, pvars, avars>>

\* buildFeatureTable(signals, fs, epochSec, metadata, dsp)
BuildFeatureTable ==
    /\ dpc = "input"
    /\ dspFn = "buildFeatureTable"
    /\ dspRet' = buildFeatureTable(dspArg.signals, dspArg.fsQ, dspArg.epochSec, dspArg.metadata)
    /\ dpc' = "done"
    /\ UNCHANGED <<dspFn, dspArg>>
    /\ UNCHANGED <<vvars, cvars, evars, pvars, avars>>

\* robustScaleMatrixCols(matrix)
RobustScaleMatrixCols ==
    /\ dpc = "input"
    /\ dspFn = "robustScaleMatrixCols"
    /\ dspRet' = robustScaleMatrixCols(dspArg.matrix)
    /\ dpc' = "done"
    /\ UNCHANGED <<dspFn, dspArg>>
    /\ UNCHANGED <<vvars, cvars, evars, pvars, avars>>

\* LucidifyYasaSleepStage.runFromSamples(samples, fs, opts)
YasaRunFromSamples ==
    /\ dpc = "input"
    /\ dspFn = "yasaRunFromSamples"
    /\ dspRet' = yasaRunFromSamples(dspArg.loaded, dspArg.result)
    /\ dpc' = "done"
    /\ UNCHANGED <<dspFn, dspArg>>
    /\ UNCHANGED <<vvars, cvars, evars, pvars, avars>>

\* softmaxRow(scores)
SoftmaxRow ==
    /\ dpc = "input"
    /\ dspFn = "softmaxRow"
    /\ dspRet' = [threw |-> FALSE, out |-> softmaxRow(dspArg.scores)]
    /\ dpc' = "done"
    /\ UNCHANGED <<dspFn, dspArg>>
    /\ UNCHANGED <<vvars, cvars, evars, pvars, avars>>

\* softmaxStable(logits)
SoftmaxStable ==
    /\ dpc = "input"
    /\ dspFn = "softmaxStable"
    /\ dspRet' = [threw |-> FALSE, out |-> softmaxStable(dspArg.scores)]
    /\ dpc' = "done"
    /\ UNCHANGED <<dspFn, dspArg>>
    /\ UNCHANGED <<vvars, cvars, evars, pvars, avars>>

\* bandpowerFromPxx(freqs, pxx, fmin, fmax), the trapzBand of the feature code
BandpowerFromPxx ==
    /\ dpc = "input"
    /\ dspFn = "bandpowerFromPxx"
    /\ dspRet' = [threw |-> FALSE,
                  power |-> bandpowerFromPxx(dspArg.freqs, dspArg.psd, dspArg.fmin, dspArg.fmax)]
    /\ dpc' = "done"
    /\ UNCHANGED <<dspFn, dspArg>>
    /\ UNCHANGED <<vvars, cvars, evars, pvars, avars>>

\* bandpower(psd, freqs, fmin, fmax)
Bandpower ==
    /\ dpc = "input"
    /\ dspFn = "bandpower"
    /\ dspRet' = [threw |-> FALSE,
                  power |-> bandpower(dspArg.psd, dspArg.freqs, dspArg.fmin, dspArg.fmax)]
    /\ dpc' = "done"
    /\ UNCHANGED <<dspFn, dspArg>>
    /\ UNCHANGED <<vvars, cvars, evars, pvars, avars>>

\* rollingTriangCentered(matrix, L)
RollingTriangCentered ==
    /\ dpc = "input"
    /\ dspFn = "rollingTriangCentered"
    /\ dspRet' = rollingTriangCentered(dspArg.matrix, dspArg.L)
    /\ dpc' = "done"
    /\ UNCHANGED <<dspFn, dspArg>>
    /\ UNCHANGED <<vvars, cvars, evars, pvars, avars>>

DNext ==
    \/ Fft \/ FftReal \/ WindowEpochs \/ PredictHypnogram \/ RunFromSamples
    \/ BuildFeatureTable \/ RobustScaleMatrixCols \/ YasaRunFromSamples
    \/ SoftmaxRow \/ SoftmaxStable
    \/ BandpowerFromPxx \/ Bandpower
    \/ RollingTriangCentered

SpecDsp == DInit /\ [][DNext]_vars


(***************************************************************************)
(* Claims about the FFT, the epochs, the feature table, robust scaling and *)
(* the shape of a staging result.                                          *)
(***************************************************************************)
Done(fn) == dpc = "done" /\ dspFn = fn

IsPowerOfTwo(n) == \E k \in 0..10 : n = 2 ^ k

FftLength == IF dspFn = "fftRadix2" THEN Len(dspArg.re) ELSE dspArg.nfft

\* C15: an FFT routine called with a length that is not a power of two
\* fails with an error and leaves no transformed output.
C15_NonPowerOfTwoRejected ==
    ((Done("fftRadix2") \/ Done("fftRadix2Real")) /\ ~IsPowerOfTwo(FftLength)) =>
        dspRet.threw

EpochCutters == {"windowEpochs", "predictHypnogram", "runFromSamples"}

CutEpochs == dpc = "done" /\ dspFn \in EpochCutters /\ ~dspRet.threw

\* C16 as stated: every epoch cut by the feature extractors and by
\* predictHypnogram holds exactly round(fs * epochSec) samples.
C16_EpochLengthRounded ==
    CutEpochs =>
        \A e \in 1..Len(dspRet.epochs) :
            Len(dspRet.epochs[e]) = RoundDiv(dspArg.fsQ * dspArg.epochSec, 4)

\* floor(fs * epochSec): the largest n with 4 n <= fsQ * epochSec
FloorSamples == CHOOSE n \in 0..(dspArg.fsQ * dspArg.epochSec) :
                    4 * n <= dspArg.fsQ * dspArg.epochSec /\ dspArg.fsQ * dspArg.epochSec < 4 * (n + 1)

\* C16 amended: every epoch cut by the feature extractors and by
\* predictHypnogram holds exactly floor(fs * epochSec) samples.
C16_EpochLengthFloored ==
    CutEpochs => \A e \in 1..Len(dspRet.epochs) : Len(dspRet.epochs[e]) = FloorSamples

\* epochs were cut at a rate for which fs * epochSec is no whole number
C16_Witness ==
    /\ CutEpochs
    /\ (dspArg.fsQ * dspArg.epochSec) % 4 >= 2
    /\ Len(dspRet.epochs) >= 2

\* C17: N samples give floor(N / nPer) epochs; epoch e holds exactly the
\* samples e*nPer .. (e+1)*nPer - 1, the trailing N mod nPer samples are in
\* no epoch and nothing is padded; stages and probs have one row per epoch.
C17_EpochsPartitionSignal ==
    CutEpochs =>
        LET N == Len(dspArg.x)
            nPer == FloorSamples
            count == CHOOSE k \in 0..N : k * nPer <= N /\ N < (k + 1) * nPer
        IN  /\ Len(dspRet.epochs) = count
            /\ \A e \in 1..count :
                  /\ Len(dspRet.epochs[e]) = nPer
                  /\ \A i \in 1..nPer : dspRet.epochs[e][i] = dspArg.x[(e - 1) * nPer + i]
            /\ dspFn # "windowEpochs" =>
                  Len(dspRet.stages) = count /\ Len(dspRet.probs) = count

\* a signal with a remainder was cut into several epochs
C17_Witness ==
    /\ CutEpochs
    /\ dspFn = "predictHypnogram"
    /\ Len(dspRet.epochs) >= 2
    /\ Len(dspArg.x) % FloorSamples # 0


\* a comes before b in lexicographic order of character codes
LexBefore(a, b) ==
    \E k \in 1..(Len(b)) :
        /\ \A j \in 1..(k - 1) : j <= Len(a) /\ a[j] = b[j]
        /\ k - 1 <= Len(a)
        /\ (k > Len(a) \/ a[k] < b[k])

BuiltTable == Done("buildFeatureTable") /\ ~dspRet.threw

\* C18: the featureNames of buildFeatureTable are strictly ascending with
\* no duplicates, and X[t][i] is the value computed for featureNames[i].
C18_SortedNamesCarryValues ==
    BuiltTable =>
        LET names == dspRet.featureNames
            computed == dspRet.finalNames
        IN  /\ Len(names) = Len(computed)
            /\ \A i \in 1..(Len(names) - 1) : LexBefore(names[i], names[i + 1])
            /\ \A i, k \in 1..Len(names) : i # k => names[i] # names[k]
            /\ \A t \in 1..Len(dspRet.X) :
                  /\ Len(dspRet.X[t]) = Len(names)
                  /\ \A i \in 1..Len(names) :
                        \E j \in 1..Len(computed) :
                            /\ computed[j] = names[i]
                            /\ dspRet.X[t][i] = ValueToken(t, j)

\* a table of several epochs was built from all three channels and metadata
C18_Witness ==
    /\ BuiltTable
    /\ dspArg.signals.has = {"eeg", "eog", "emg"}
    /\ HasAge(dspArg.metadata) /\ HasMale(dspArg.metadata)
    /\ Len(dspRet.X) >= 2
    /\ dspRet.featureNames # dspRet.finalNames

ScaledMatrix == Done("robustScaleMatrixCols") /\ ~dspRet.threw

ColumnOf(d) == [t \in 1..Len(dspArg.matrix) |-> dspArg.matrix[t][d]]

\* the k-th smallest value of col (k from 1)
OrderStat(col, k) ==
    CHOOSE v \in {col[i] : i \in 1..Len(col)} :
        /\ Cardinality({i \in 1..Len(col) : col[i] < v}) < k
        /\ k <= Cardinality({i \in 1..Len(col) : col[i] <= v})

\* twenty times the percentile p (a multiple of five) of col, interpolated
\* linearly between the neighbouring order statistics
Percentile20(col, p) ==
    LET n == Len(col)
        pos100 == (n - 1) * p
        k == pos100 \div 100
        frac20 == (pos100 % 100) \div 5
    IN  IF k + 1 >= n THEN 20 * OrderStat(col, n)
        ELSE 20 * OrderStat(col, k + 1)
                + frac20 * (OrderStat(col, k + 2) - OrderStat(col, k + 1))

ScaledBy(col, low, t) ==
    LET spread == Percentile20(col, 95) - Percentile20(col, low)
    IN  Rat(20 * col[t] - Percentile20(col, 50), IF spread = 0 THEN 20 ELSE spread)

\* C19 as stated: each column is scaled as (x - median) / (p95 - p25), the
\* divisor replaced by 1 when it is zero.
C19_ScaledByP95MinusP25 ==
    ScaledMatrix =>
        \A t \in 1..Len(dspArg.matrix) : \A d \in 1..Len(dspArg.matrix[1]) :
            dspRet.out[t][d] = ScaledBy(ColumnOf(d), 25, t)

\* C19 amended: each column is scaled as (x - median) / (p95 - p5), the
\* divisor replaced by 1 when it is zero.
C19_ScaledByP95MinusP5 ==
    ScaledMatrix =>
        /\ Len(dspRet.out) = Len(dspArg.matrix)
        /\ \A t \in 1..Len(dspArg.matrix) :
              /\ Len(dspRet.out[t]) = Len(dspArg.matrix[1])
              /\ \A d \in 1..Len(dspArg.matrix[1]) :
                    dspRet.out[t][d] = ScaledBy(ColumnOf(d), 5, t)

\* a column whose 5th and 25th percentiles differ was scaled
C19_Witness ==
    /\ ScaledMatrix
    /\ Len(dspArg.matrix) >= 4
    /\ Percentile20(ColumnOf(1), 5) # Percentile20(ColumnOf(1), 25)
    /\ Percentile20(ColumnOf(1), 95) # Percentile20(ColumnOf(1), 5)

StageNames == {"W", "N1", "N2", "N3", "REM"}

\* C20: with every backend a staging run returns stages as strings, one per
\* epoch and as many as probs has rows, each one of W, N1, N2, N3, REM.
C20_StagesAreStageNames ==
    (dpc = "done" /\ dspFn \in {"predictHypnogram", "runFromSamples", "yasaRunFromSamples"}
                  /\ ~dspRet.threw) =>
        /\ Len(dspRet.stages) = Len(dspRet.probs)
        /\ \A i \in 1..Len(dspRet.stages) :
              /\ dspRet.stages[i].tag = "str"
              /\ dspRet.stages[i].s \in StageNames


(***************************************************************************)
(* Claims about the comparison at a split node.                            *)
(***************************************************************************)
\* v <op> thr on finite numbers, an operator other than the five being <=
Compares(op, v, thr) ==
    CASE op = "<"  -> v < thr
      [] op = ">"  -> v > thr
      [] op = ">=" -> v >= thr
      [] op = "==" -> v = thr
      [] OTHER     -> v <= thr

\* the operator of a split node, "<=" when it has no decision_type
OperatorOf(n) == IF "decision_type" \in DOMAIN n THEN n.decision_type ELSE "<="

\* the leaf value the walk from n ends at when every value read is finite
RECURSIVE Descend(_, _)
Descend(n, x) ==
    IF "leaf_value" \in DOMAIN n THEN n.leaf_value
    ELSE IF Compares(OperatorOf(n), x[n.split_feature + 1].v, n.threshold)
         THEN Descend(n.left_child, x)
         ELSE Descend(n.right_child, x)

FiniteRow == Len(xrow) = MaxRow /\ \A i \in 1..Len(xrow) : xrow[i].tag = "num"

\* C24: for finite feature values evalTreeNode goes left iff v <op> threshold
\* holds, op being the node's decision_type and <= when it is absent or
\* unrecognized, and the walk returns the leaf_value of the leaf it ends at.
C24_FiniteValueFollowsComparison ==
    (call = "node" /\ cpc = "done" /\ FiniteRow) =>
        /\ ~cout.threw
        /\ cout.value = Descend(node, xrow)
        /\ ~IsLeaf(node) =>
              (WentLeft <=> Compares(OperatorOf(node), RootValue.v, node.threshold))

\* a two-level tree was walked to its inner right leaf
C24_Witness ==
    /\ call = "node" /\ cpc = "done" /\ FiniteRow
    /\ node = DeepTree
    /\ cout.value = 8


(***************************************************************************)
(* Claims about the layout of the data records.                            *)
(***************************************************************************)
\* the signed 16-bit value of a word with low byte lo and high byte hi
SignedWord(lo, hi) ==
    CHOOSE w \in -32768..32767 : (w - (lo + 256 * hi)) % 65536 = 0

\* C25: for every record r, signal s and sample i whose two bytes lie in the
\* buffer, index r * samplesPerRecord[s] + i of channel s holds the value of
\* the little-endian signed word at headerLength + r * bytesPerRecord +
\* 2 * sum_{j<s} samplesPerRecord[j] + 2 * i; the last complete word of the
\* buffer is decoded.
C25_SampleLayout ==
    (Parsed /\ ~rec.threw) =>
        LET lay == LayoutOf(buf)
        IN  /\ Len(rec.channels) = lay.nSignals
            /\ \A s \in 0..(lay.nSignals - 1) :
                  LET h == SignalNumbers(buf, lay, s)
                      den == IF h.digMax = h.digMin THEN 1 ELSE h.digMax - h.digMin
                  IN  \A p \in PresentWords(buf, lay, s) :
                          LET at == WordOffset(lay, p[1], s, p[2])
                              d == SignedWord(buf[at + 1], buf[at + 2])
                              index == p[1] * lay.spr[s + 1] + p[2]
                          IN  /\ index < Len(rec.channels[s + 1].samples)
                              /\ rec.channels[s + 1].samples[index + 1] = ScaledValue(h, d, den)

\* a truncated file of two signals was decoded up to its last complete word,
\* which lies in the second record and is not the value of an unread position
C25_Witness ==
    /\ Parsed /\ ~rec.threw /\ FromDisk
    /\ LET lay == LayoutOf(buf)
       IN  /\ lay.nSignals = 2
           /\ Truncated(buf, lay)
           /\ \E s \in 0..1 : \E p \in PresentWords(buf, lay, s) :
                 /\ p[1] = 1
                 /\ WordOffset(lay, p[1], s, p[2]) + 2 = Len(buf)
                 /\ rec.channels[s + 1].samples[p[1] * lay.spr[s + 1] + p[2] + 1]
                        # ScaledValue(SignalNumbers(buf, lay, s), 0,
                                      IF SignalNumbers(buf, lay, s).digMax = SignalNumbers(buf, lay, s).digMin
                                      THEN 1 ELSE SignalNumbers(buf, lay, s).digMax - SignalNumbers(buf, lay, s).digMin)


(***************************************************************************)
(* Claims about the softmax.                                               *)
(***************************************************************************)
SoftmaxDone == dpc = "done" /\ dspFn \in {"softmaxRow", "softmaxStable"}

SoftmaxOf(scores) ==
    IF dspFn = "softmaxRow" THEN softmaxRow(scores) ELSE softmaxStable(scores)

\* the constants added to every score
Shifts == {-3, 1, 5}

Shifted(scores, c) == [i \in 1..Len(scores) |-> Plus(scores[i], Num(c))]

RECURSIVE SumNumerators(_, _)
SumNumerators(out, i) == IF i = 0 THEN 0 ELSE SumNumerators(out, i - 1) + out[i].n

\* the probabilities are fractions over one denominator that add up to 1
SumsToOne(out) ==
    /\ out # << >>
    /\ \A i \in 1..Len(out) : out[i].tag = "num" /\ out[i].d = out[1].d
    /\ SumNumerators(out, Len(out)) = out[1].d

SameProbabilities(a, b) ==
    /\ Len(a) = Len(b)
    /\ \A i \in 1..Len(a) :
          /\ a[i].tag = b[i].tag
          /\ a[i].tag = "num" => a[i].n * b[i].d = b[i].n * a[i].d

\* C23 as stated: for every score vector the softmax output sums to 1 and is
\* unchanged when a constant is added to every score.
C23_SoftmaxSumsToOne ==
    SoftmaxDone =>
        /\ SumsToOne(dspRet.out)
        /\ \A c \in Shifts :
              SameProbabilities(SoftmaxOf(Shifted(dspArg.scores, c)), dspRet.out)

\* scores that are finite or -Infinity, at least one of them finite
RegularScores(scores) ==
    /\ \A i \in 1..Len(scores) : scores[i].tag \in {"num", "ninf"}
    /\ \E i \in 1..Len(scores) : scores[i].tag = "num"

\* C23 amended: for scores that are finite or -Infinity, one at least finite,
\* the output sums to 1 and is unchanged when a constant is added to every
\* score; an empty vector gives an empty output, and a vector with a NaN or
\* +Infinity score, or of -Infinity scores only, gives an output with a NaN.
C23_SoftmaxOfRegularScores ==
    SoftmaxDone =>
        IF RegularScores(dspArg.scores)
        THEN /\ SumsToOne(dspRet.out)
             /\ \A c \in Shifts :
                   SameProbabilities(SoftmaxOf(Shifted(dspArg.scores, c)), dspRet.out)
        ELSE /\ Len(dspRet.out) = Len(dspArg.scores)
             /\ dspArg.scores # << >> => \E i \in 1..Len(dspRet.out) : dspRet.out[i].tag = "nan"

\* softmaxRow ran on three different finite scores, one of them far below
C23_Witness ==
    /\ SoftmaxDone /\ dspFn = "softmaxRow"
    /\ dspArg.scores = <<Num(-1), Num(2), Num(-9)>>
    /\ dspRet.out[2].n > dspRet.out[1].n /\ dspRet.out[1].n > dspRet.out[3].n


(***************************************************************************)
(* Claims about band power.                                                *)
(***************************************************************************)
\* twice the piecewise-linear PSD at the half-hertz point u of the spectrum
PsdAt2(psd, freqs, u) ==
    LET i == CHOOSE k \in 1..(Len(freqs) - 1) : freqs[k] <= u /\ u <= freqs[k + 1]
    IN  psd[i] * (freqs[i + 1] - u) + psd[i + 1] * (u - freqs[i])

RECURSIVE SumOver(_, _, _, _)
SumOver(psd, freqs, u, hi) ==
    IF u >= hi THEN 0
    ELSE PsdAt2(psd, freqs, u) + PsdAt2(psd, freqs, u + 1) + SumOver(psd, freqs, u + 1, hi)

\* eight times the integral of the piecewise-linear PSD over the part of
\* [lo, hi] the spectrum covers: between two neighbouring half-hertz points
\* the PSD is linear, so each step adds the mean of its two ends
BandIntegral8(psd, freqs, lo, hi) ==
    SumOver(psd, freqs, Max2(lo, freqs[1]), Min2(hi, freqs[Len(freqs)]))

\* C26: bandpower over [fLo, fHi] is the integral of the piecewise-linear
\* PSD over exactly that interval, partial bins included, in trapzBand and
\* in the linear path's bandpower alike.
C26_BandpowerIsBandIntegral ==
    (dpc = "done" /\ dspFn \in {"bandpowerFromPxx", "bandpower"}) =>
        dspRet.power = BandIntegral8(dspArg.psd, dspArg.freqs, dspArg.fmin, dspArg.fmax)


(***************************************************************************)
(* Claims about the centered rolling mean.                                 *)
(***************************************************************************)
Rolled == Done("rollingTriangCentered") /\ ~dspRet.threw

\* the offsets i of 0..14 whose epoch t + i - 7 lies in the recording
OffsetsIn(t, T) == {i \in 0..14 : 0 <= t + i - 7 /\ t + i - 7 < T}

\* eight times w_i
Weight8(i) == 8 - (IF i >= 7 THEN i - 7 ELSE 7 - i)

RECURSIVE WeightedSum(_, _, _, _)
WeightedSum(S, col, t, withValues) ==
    IF S = {} THEN 0
    ELSE LET i == CHOOSE j \in S : TRUE
         IN  Weight8(i) * (IF withValues THEN col[t + i - 7 + 1] ELSE 1)
                + WeightedSum(S \ {i}, col, t, withValues)

InputColumn(d) == [t \in 1..Len(dspArg.matrix) |-> dspArg.matrix[t][d]]

\* C27: at every epoch t and column the centered rolling mean is
\* sum_i w_i x[t+i-7] / sum_i w_i over the offsets i of 0..14 with
\* 0 <= t+i-7 < T, w_i = (8 - |i-7|) / 8; a constant column stays constant.
C27_RollingMeanRenormalised ==
    Rolled =>
        LET T == Len(dspArg.matrix)
        IN  /\ Len(dspRet.out) = T
            /\ \A t \in 0..(T - 1) : \A d \in 1..Len(dspArg.matrix[1]) :
                  LET col == InputColumn(d)
                      S == OffsetsIn(t, T)
                      mean == dspRet.out[t + 1][d]
                  IN  /\ mean.n * WeightedSum(S, col, t, FALSE)
                            = mean.d * WeightedSum(S, col, t, TRUE)
                      /\ (\A u \in 1..T : col[u] = col[1]) => mean.n = col[1] * mean.d

\* a recording longer than the window was smoothed: the first epoch, an
\* epoch with the whole window and the last epoch of a peaked column
C27_Witness ==
    /\ Rolled
    /\ Len(dspArg.matrix) = MaxRoll
    /\ dspArg.matrix[8][1] = 8 /\ dspArg.matrix[1][1] = 0
    /\ dspRet.out[1][1].d = 36 /\ dspRet.out[8][1].d = 64
    /\ dspRet.out[8][1].n = 64 /\ dspRet.out[MaxRoll][1].n = 0


(***************************************************************************)
(* renderHypnogramFromSelection (sleep_bundle.js): mergeChannels,          *)
(* normalizeToVolts, sliceView, the one-epoch fallback, staging and        *)
(* smoothing, on a heap of arrays.  A sample is the fraction n / d; the    *)
(* sampling rate is in sixtieths of a hertz and times are whole seconds.   *)
(***************************************************************************)
MaxChannels == 2     \* most channels of a recording
MaxLength == 5       \* longest channel, in samples

\* the id a newly created array gets
NewId(h) == Len(h) + 1

\* an accumulator that reuses the first selected channel's array
MergeOut_reuseFirst(h, chans, indices) == chans[indices[1] + 1].samples

\* const out = new Float32Array(minLen): a new array
MergeOut(h, chans, indices) == NewId(h)

\* the heap once the array id exists: a new one is filled with n zeros
Allocated(h, id, n) ==
    IF id \in DOMAIN h THEN h ELSE Append(h, [j \in 1..n |-> [n |-> 0, d |-> 1]])

\* for (j < minLen) out[j] += s[j], out and s being arrays of the heap
AddInto(h, out, s, minLen) ==
    [h EXCEPT ![out] = [j \in DOMAIN @ |->
        IF j <= minLen THEN [n |-> @[j].n + h[s][j].n, d |-> 1] ELSE @[j]]]

RECURSIVE AddAll(_, _, _, _, _)
AddAll(h, out, chans, indices, minLen) ==
    IF indices = << >> THEN h
    ELSE AddAll(AddInto(h, out, chans[Head(indices) + 1].samples, minLen),
                out, chans, Tail(indices), minLen)

\* for (j < minLen) out[j] *= inv, inv = 1 / count
ScaleBy(h, out, minLen, count) ==
    [h EXCEPT ![out] = [j \in DOMAIN @ |->
        IF j <= minLen THEN [n |-> @[j].n, d |-> @[j].d * count] ELSE @[j]]]

\* mergeChannels(recording, indices) on the heap h
mergeChannels(h, recording, indices) ==
    LET chans == recording.channels
        fs == chans[indices[1] + 1].fs
    IN  IF \E k \in 1..Len(indices) : chans[indices[k] + 1].fs # fs
        THEN [threw |-> TRUE, heap |-> h, samples |-> 0, fs |-> fs, physDim |-> << >>]
        ELSE LET minLen == Least({Len(h[chans[indices[k] + 1].samples]) : k \in 1..Len(indices)})
                 out == MergeOut(h, chans, indices)
                 summed == AddAll(Allocated(h, out, minLen), out, chans, indices, minLen)
             IN  [threw |-> FALSE,
                  heap |-> ScaleBy(summed, out, minLen, Len(indices)),
                  samples |-> out, fs |-> fs, physDim |-> chans[indices[1] + 1].physDim]

\* 1 / mul of normalizeToVolts
VoltDivisor(physDim) ==
    LET d == Trim(physDim)
    IN  IF d = Ascii(<<"u", "V">>) THEN 1000000
        ELSE IF d = Ascii(<<"m", "V">>) THEN 1000
        ELSE 1

\* normalizeToVolts(samples, physDim): the array it returns, and the heap
normalizeToVolts(h, samples, physDim) ==
    IF VoltDivisor(physDim) = 1 THEN [heap |-> h, samples |-> samples]
    ELSE [heap |-> Append(h, [i \in 1..Len(h[samples]) |->
                                 [n |-> h[samples][i].n,
                                  d |-> h[samples][i].d * VoltDivisor(physDim)]]),
          samples |-> NewId(h)]

\* Math.floor(sec * fs), fs in sixtieths of a hertz
FloorSamp(sec, fs60) == (sec * fs60) \div 60

\* sliceView(samples, fs): a subarray, that is a view [from, to) of the same array
sliceView(h, samples, fs60, viewStartSec, viewDurationSec) ==
    LET startSamp == Max2(0, FloorSamp(viewStartSec, fs60))
        endSamp == Min2(Len(h[samples]), FloorSamp(viewStartSec + viewDurationSec, fs60))
    IN  IF endSamp <= startSamp THEN [array |-> samples, from |-> 0, to |-> 0]
        ELSE [array |-> samples, from |-> startSamp, to |-> endSamp]

ViewLength(v) == v.to - v.from

\* the elements a view shows
ViewOf(h, v) == SubSeq(h[v.array], v.from + 1, v.to)

\* a window start that is not moved back when the window hits the end
WindowBounds_noBackoff(length, fs60, viewStartSec, viewDurationSec) ==
    LET epochSamp == FloorSamp(30, fs60)
        center == ((2 * viewStartSec + viewDurationSec) * fs60) \div 120
        a == Max2(0, center - epochSamp \div 2)
    IN  [a |-> a, b |-> Min2(length, a + epochSamp)]

\* a and b of the fallback that ensures one epoch
WindowBounds(length, fs60, viewStartSec, viewDurationSec) ==
    LET epochSamp == FloorSamp(30, fs60)
        center == ((2 * viewStartSec + viewDurationSec) * fs60) \div 120
        a0 == Max2(0, center - epochSamp \div 2)
        b == Min2(length, a0 + epochSamp)
    IN  [a |-> Max2(0, b - epochSamp), b |-> b]

\* typed-array slice(a, b): the index range it copies
SliceRange(length, a, b) ==
    LET from == Min2(Max2(a, 0), length)
    IN  [from |-> from, to |-> Max2(from, Min2(Max2(b, 0), length))]

\* the classifier's row for an epoch: a function of its samples alone
RECURSIVE SumNum(_)
SumNum(q) == IF q = << >> THEN 0 ELSE Head(q).n + SumNum(Tail(q))

EpochRow(epoch) == Soft((SumNum(epoch) % NumStates) + 1)

NoView == [array |-> 0, from |-> 0, to |-> 0]

\* channel c of len samples, every sample different from every other
ChannelArray(c, len) == [j \in 1..len |-> [n |-> 10 * c + j, d |-> 1]]

\* physical dimensions: volts, padded microvolts, millivolts
PhysDims == {Ascii(<<"V">>), Ascii(<<"u", "V">>) \o <<32>>, Ascii(<<"m", "V">>)}

\* sampling rates, in sixtieths of a hertz
Rates60 == {2, 4, 5, 6}

\* recordings on the heap: channel c is array c; a second channel may be
\* one sample shorter and may have another sampling rate
Recordings ==
    UNION {UNION {
        {[heap |-> <<ChannelArray(1, len)>>,
          recording |-> [channels |-> <<[fs |-> fs, samples |-> 1, physDim |-> pd]>>]]}
        \cup
        (IF MaxChannels < 2 THEN {} ELSE
         {[heap |-> <<ChannelArray(1, len), ChannelArray(2, len2)>>,
           recording |-> [channels |-> <<[fs |-> fs, samples |-> 1, physDim |-> pd],
                                         [fs |-> fs2, samples |-> 2, physDim |-> pd]>>]] :
             len2 \in {len, Max2(1, len - 1)}, fs2 \in {fs, 4}})
        : fs \in Rates60, pd \in PhysDims} : len \in 1..MaxLength}

\* the checked channels, in index order
IndexLists(n) == {q \in {<< >>, <<0>>, <<1>>, <<0, 1>>} : \A k \in 1..Len(q) : q[k] < n}

ViewStarts == {0, 30, 60, 100, 400}
ViewDurations == {10, 30, 90}

PInit ==
    /\ \E r \in Recordings :
          /\ heap = r.heap
          /\ penv \in {[recording |-> r.recording, channels0 |-> r.heap, indices |-> ix,
                        viewStartSec |-> vs, viewDurationSec |-> vd, hmm |-> hm,
                        merged |-> 0, fs |-> 0, physDim |-> << >>, samplesV |-> 0,
                        windowNative |-> NoView, windowV |-> NoView,
                        fallback |-> FALSE, a |-> 0, b |-> 0,
                        rows |-> << >>, rows0 |-> << >>, stages |-> << >>,
                        stagesToDraw |-> << >>] :
                          ix \in IndexLists(Len(r.heap)), vs \in ViewStarts,
                          vd \in ViewDurations, hm \in BOOLEAN}
    /\ ppc = "start"
    /\ VIdle /\ CIdle /\ EIdle /\ DIdle /\ AIdle

\* if (indices.length === 0) return; const merged = mergeChannels(lastRecording, indices)
PMerge ==
    /\ ppc = "start"
    /\ IF penv.indices = << >>
       THEN ppc' = "returned" /\ UNCHANGED <<heap, penv>>
       ELSE LET r == mergeChannels(heap, penv.recording, penv.indices)
            IN  /\ heap' = r.heap
                /\ ppc' = IF r.threw THEN "threw" ELSE "merged"
                /\ penv' = [penv EXCEPT !.merged = r.samples, !.fs = r.fs,
                                        !.physDim = r.physDim]
    /\ UNCHANGED <<vvars, cvars, evars, dvars, avars>>

\* const samplesV_full = normalizeToVolts(samplesNative_full, merged.physDim)
PNormalize ==
    /\ ppc = "merged"
    /\ LET r == normalizeToVolts(heap, penv.merged, penv.physDim)
       IN  /\ heap' = r.heap
           /\ penv' = [penv EXCEPT !.samplesV = r.samples]
    /\ ppc' = "normalized"
    /\ UNCHANGED <<vvars, cvars, evars, dvars, avars>>

\* the two sliceView calls and the fallback that ensures one epoch
PSlice ==
    /\ ppc = "normalized"
    /\ LET native == sliceView(heap, penv.merged, penv.fs, penv.viewStartSec, penv.viewDurationSec)
           volts == sliceView(heap, penv.samplesV, penv.fs, penv.viewStartSec, penv.viewDurationSec)
           epochSamp == FloorSamp(30, penv.fs)
       IN  IF ViewLength(volts) < epochSamp
           THEN LET w == WindowBounds(Len(heap[penv.samplesV]), penv.fs,
                                      penv.viewStartSec, penv.viewDurationSec)
                    rv == SliceRange(Len(heap[penv.samplesV]), w.a, w.b)
                    rn == SliceRange(Len(heap[penv.merged]), w.a, w.b)
                    copyV == SubSeq(heap[penv.samplesV], rv.from + 1, rv.to)
                    copyN == SubSeq(heap[penv.merged], rn.from + 1, rn.to)
                IN  /\ heap' = heap \o <<copyV, copyN>>
                    /\ penv' = [penv EXCEPT
                          !.windowV = [array |-> Len(heap) + 1, from |-> 0, to |-> Len(copyV)],
                          !.windowNative = [array |-> Len(heap) + 2, from |-> 0, to |-> Len(copyN)],
                          !.fallback = TRUE, !.a = w.a, !.b = w.b]
           ELSE /\ heap' = heap
                /\ penv' = [penv EXCEPT !.windowV = volts, !.windowNative = native]
    /\ ppc' = "sliced"
    /\ UNCHANGED <<vvars, cvars, evars, dvars, avars>>

\* predictHypnogram(windowSamplesV, fs, predictFromFeatures, 30): every epoch
\* is a copy, each probs row a new array
PStage ==
    /\ ppc = "sliced"
    /\ LET samples == ViewOf(heap, penv.windowV)
           samplesPerEpoch == FloorSamp(30, penv.fs)
           nEpochs == EpochCount(Len(samples), samplesPerEpoch)
           epoch(e) == SubSeq(samples, EpochStart(e - 1, samplesPerEpoch) + 1,
                              EpochStart(e - 1, samplesPerEpoch) + samplesPerEpoch)
           epochs == [e \in 1..nEpochs |-> epoch(e)]
           rows == [e \in 1..nEpochs |-> EpochRow(epoch(e))]
       IN  /\ heap' = heap \o epochs \o rows
           /\ penv' = [penv EXCEPT
                 !.rows = [e \in 1..nEpochs |-> Len(heap) + nEpochs + e],
                 !.rows0 = rows,
                 !.stages = [e \in 1..nEpochs |-> StageLabels[FirstArgmax(rows[e])]]]
    /\ ppc' = "staged"
    /\ UNCHANGED <<vvars, cvars, evars, dvars, avars>>

\* stagesToDraw: viterbiSmoothSleepStages(probs, labels) when the HMM box is checked
PSmooth ==
    /\ ppc = "staged"
    /\ LET probsRows == [e \in 1..Len(penv.rows) |-> heap[penv.rows[e]]]
       IN  penv' = [penv EXCEPT !.stagesToDraw =
                       IF penv.hmm /\ Len(probsRows) = Len(penv.stages)
                       THEN viterbiSmoothSleepStages(probsRows, StageLabels).path
                       ELSE penv.stages]
    /\ heap' = heap
    /\ ppc' = "smoothed"
    /\ UNCHANGED <<vvars, cvars, evars, dvars, avars>>

PNext == PMerge \/ PNormalize \/ PSlice \/ PStage \/ PSmooth

SpecPipeline == PInit /\ [][PNext]_vars


(***************************************************************************)
(* C21: no stage of a render writes into an array it was given: whatever   *)
(* the render has done, every channel's sample array holds the samples it  *)
(* held before the render, and after smoothing every probs row holds what  *)
(* the classifier put in it.                                               *)
(***************************************************************************)
ChannelsUntouched ==
    \A c \in 1..Len(penv.channels0) : heap[c] = penv.channels0[c]

RowsUntouched ==
    \A e \in 1..Len(penv.rows) : heap[penv.rows[e]] = penv.rows0[e]

C21_StagesLeaveInputsUnchanged ==
    ppc # "none" => ChannelsUntouched /\ (ppc = "smoothed" => RowsUntouched)

\* two channels were merged, scaled to volts, staged into several epochs and smoothed
C21_Witness ==
    /\ ppc = "smoothed"
    /\ Len(penv.indices) = 2
    /\ penv.samplesV # penv.merged
    /\ penv.hmm
    /\ Len(penv.rows) >= 2
    /\ penv.stagesToDraw # penv.stages

(***************************************************************************)
(* C28: when the view holds fewer samples than one epoch, the window that  *)
(* is staged is [a, b) of the merged channel, 0 <= a <= b <= length and    *)
(* b - a = min(length, floor(30 * fs)); it is a whole epoch when the       *)
(* channel has one, and the native window is cut at the same [a, b).       *)
(***************************************************************************)
C28_FallbackWindowIsOneEpoch ==
    (ppc \in {"sliced", "staged", "smoothed"} /\ penv.fallback) =>
        LET length == Len(heap[penv.samplesV])
            epochSamp == FloorSamp(30, penv.fs)
        IN  /\ 0 <= penv.a /\ penv.a <= penv.b /\ penv.b <= length
            /\ penv.b - penv.a = Min2(length, epochSamp)
            /\ ViewOf(heap, penv.windowV) = SubSeq(heap[penv.samplesV], penv.a + 1, penv.b)
            /\ ViewOf(heap, penv.windowNative) = SubSeq(heap[penv.merged], penv.a + 1, penv.b)
            /\ length >= epochSamp => ViewLength(penv.windowV) = epochSamp

\* the fallback ran and the view's window was narrower than an epoch
C28_FallbackOnlyOnShortView ==
    (ppc \in {"sliced", "staged", "smoothed"}) =>
        (penv.fallback <=>
            ViewLength(sliceView(heap, penv.samplesV, penv.fs, penv.viewStartSec,
                                 penv.viewDurationSec)) < FloorSamp(30, penv.fs))

\* a view past the end: the window was moved back to the last whole epoch and staged
C28_Witness ==
    /\ ppc = "staged"
    /\ penv.fallback
    /\ penv.a > 0
    /\ penv.b = Len(heap[penv.samplesV])
    /\ penv.b - penv.a = FloorSamp(30, penv.fs)
    /\ penv.b - penv.a >= 2
    /\ penv.samplesV # penv.merged
    /\ Len(penv.rows) = 1


(***************************************************************************)
(* Staging runs and the models they load: LucidifySleepStage.run           *)
(* (sleep_stage.js), runHypnogram and loadSleepStageModel                  *)
(* (hypnogram_pipeline.js, sleep_stage_model.js) and                       *)
(* LucidifyYasaSleepStage.runFromSamples.  Each await is a step of its     *)
(* own, so that the steps of several runs interleave.                      *)
(***************************************************************************)
MaxRuns == 3         \* staging runs started

\* the model sources a run may name
Sources == {"model.json", "yasa/yasa_model_dump.json"}

\* model instances: none yet, window.__YASA_MODEL_DUMP__, the k-th object a load built
NoInstance == [kind |-> "none"]
EmbeddedDump == [kind |-> "embedded"]
Loaded(k) == [kind |-> "loaded", k |-> k]

IdleRun == [pc |-> "idle", api |-> "none", source |-> "none", model |-> NoInstance]

\* loadMods(): the three imports are started only while _modsPromise is null
loadMods(st) ==
    IF st.modsPromise THEN st
    ELSE [st EXCEPT !.modsPromise = TRUE, !.imports = @ + 1]

\* await fetch(modelUrl) / loadJSON(modelUrl): one more load of the source
FetchModel(st, src) == [st EXCEPT !.loads[src] = @ + 1]

SInit ==
    /\ \E embedded \in BOOLEAN :
          stager = [modsPromise |-> FALSE, imports |-> 0, dump |-> embedded,
                    loads |-> [src \in Sources |-> 0], made |-> 0,
                    runs |-> [r \in 1..MaxRuns |-> IdleRun]]
    /\ loader = << >> /\ renderer = << >>
    /\ VIdle /\ CIdle /\ EIdle /\ DIdle /\ PIdle

\* LucidifySleepStage.run(recording, opts) up to its await loadMods()
Run ==
    /\ \E r \in 1..MaxRuns, src \in Sources :
          /\ stager.runs[r].pc = "idle"
          /\ stager' = [loadMods(stager) EXCEPT
                           !.runs[r] = [pc |-> "mods", api |-> "run", source |-> src,
                                        model |-> NoInstance]]
    /\ UNCHANGED <<loader, renderer>>
    /\ UNCHANGED <<vvars, cvars, evars, dvars, pvars>>

\* the modules are there: runHypnogram runs up to await loadSleepStageModel(modelUrl)
RunHypnogram ==
    /\ \E r \in 1..MaxRuns :
          /\ stager.runs[r].pc = "mods"
          /\ stager' = [FetchModel(stager, stager.runs[r].source) EXCEPT
                           !.runs[r].pc = "model"]
    /\ UNCHANGED <<loader, renderer>>
    /\ UNCHANGED <<vvars, cvars, evars, dvars, pvars>>

\* LucidifyYasaSleepStage.runFromSamples up to its modelDump
YasaModelDump ==
    /\ \E r \in 1..MaxRuns, src \in Sources :
          /\ stager.runs[r].pc = "idle"
          /\ stager' =
                IF stager.dump
                THEN [stager EXCEPT
                         !.runs[r] = [pc |-> "done", api |-> "yasa", source |-> src,
                                      model |-> EmbeddedDump]]
                ELSE [FetchModel(stager, src) EXCEPT
                         !.runs[r] = [pc |-> "model", api |-> "yasa", source |-> src,
                                      model |-> NoInstance]]
    /\ UNCHANGED <<loader, renderer>>
    /\ UNCHANGED <<vvars, cvars, evars, dvars, pvars>>

\* the fetch resolves: the JSON is parsed into a new object, which the run uses
ModelLoaded ==
    /\ \E r \in 1..MaxRuns :
          /\ stager.runs[r].pc = "model"
          /\ stager' = [stager EXCEPT !.made = @ + 1,
                                      !.runs[r].pc = "done",
                                      !.runs[r].model = Loaded(stager.made + 1)]
    /\ UNCHANGED <<loader, renderer>>
    /\ UNCHANGED <<vvars, cvars, evars, dvars, pvars>>

SNext == Run \/ RunHypnogram \/ YasaModelDump \/ ModelLoaded

SpecStager == SInit /\ [][SNext]_vars

(***************************************************************************)
(* C22: a model is loaded once per source: whatever runs have been started *)
(* and however their steps interleave, no source has been loaded more than *)
(* once, the pipeline modules have been imported at most once, and two     *)
(* runs that named the same source and have their model use the same       *)
(* instance.                                                               *)
(***************************************************************************)
FinishedRuns == {r \in 1..MaxRuns : stager.runs[r].pc = "done"}

C22_ModelLoadedOncePerSource ==
    stager # << >> =>
        /\ stager.imports <= 1
        /\ \A src \in Sources : stager.loads[src] <= 1
        /\ \A r1, r2 \in FinishedRuns :
              stager.runs[r1].source = stager.runs[r2].source =>
                  stager.runs[r1].model = stager.runs[r2].model

\* the pipeline modules alone: imported at most once
C22_ModulesImportedOnce ==
    stager # << >> => stager.imports <= 1

\* two runs of the same source, one after the other, each with a model of its own
C22_TwoLoads ==
    /\ stager # << >>
    /\ \E r1, r2 \in FinishedRuns :
          /\ r1 # r2
          /\ stager.runs[r1].api = "run" /\ stager.runs[r2].api = "run"
          /\ stager.runs[r1].source = stager.runs[r2].source
          /\ stager.runs[r1].model # stager.runs[r2].model
    /\ stager.imports = 1


(***************************************************************************)
(* LargeEdfSegmentLoader (large_edf_segment_loader.js): handleFile, the    *)
(* header reader's onload, the overlay's buttons, _loadSegment and the     *)
(* segment reader's onload.  A file is the number of the handleFile call   *)
(* that brought it; a header is named by the file it was parsed from.      *)
(***************************************************************************)
MaxFiles == 3        \* handleFile calls

Null == 0            \* this._currentFile = null

LInit ==
    /\ loader = [currentFile |-> Null, headerInfo |-> Null, headerBytesRaw |-> Null,
                 overlay |-> FALSE, disabled |-> FALSE,
                 headerReads |-> {}, segmentReads |-> {},
                 handled |-> 0, returned |-> FALSE, cancelled |-> "none", ready |-> << >>]
    /\ stager = << >> /\ renderer = << >>
    /\ VIdle /\ CIdle /\ EIdle /\ DIdle /\ PIdle

\* handleFile(file): a file above the threshold becomes the current file and
\* a reader is started on its first 16384 bytes
HandleFile ==
    /\ loader.handled < MaxFiles
    /\ \E large \in BOOLEAN, valid \in BOOLEAN :
          LET file == loader.handled + 1
          IN  loader' =
                 IF ~large
                 THEN [loader EXCEPT !.handled = file, !.returned = FALSE]
                 ELSE [loader EXCEPT !.handled = file, !.returned = TRUE,
                                     !.currentFile = file,
                                     !.headerReads = @ \cup {[file |-> file, valid |-> valid]}]
    /\ UNCHANGED <<stager, renderer>>
    /\ UNCHANGED <<vvars, cvars, evars, dvars, pvars>>

\* _showOverlay(): displayed only when there is a file and a header
ShowOverlay(ld) ==
    IF ld.currentFile = Null \/ ld.headerInfo = Null THEN ld
    ELSE [ld EXCEPT !.overlay = TRUE]

\* reader.onload of handleFile, for any of the header reads in flight
HeaderOnload ==
    /\ \E rd \in loader.headerReads :
          LET rest == [loader EXCEPT !.headerReads = @ \ {rd}]
          IN  loader' =
                 IF rd.valid
                 THEN ShowOverlay([rest EXCEPT !.headerInfo = rd.file,
                                               !.headerBytesRaw = rd.file])
                 ELSE [rest EXCEPT !.currentFile = Null, !.headerInfo = Null,
                                   !.headerBytesRaw = Null,
                                   !.cancelled = "header-parse-failed"]
    /\ UNCHANGED <<stager, renderer>>
    /\ UNCHANGED <<vvars, cvars, evars, dvars, pvars>>

\* the Cancel button's click listener
CancelClick ==
    /\ loader.overlay /\ ~loader.disabled
    /\ loader' = [loader EXCEPT !.overlay = FALSE, !.currentFile = Null,
                                !.headerInfo = Null, !.cancelled = "user-cancelled"]
    /\ UNCHANGED <<stager, renderer>>
    /\ UNCHANGED <<vvars, cvars, evars, dvars, pvars>>

\* _onSubmit() with a channel checked, and the _loadSegment it calls
OnSubmit ==
    /\ loader.overlay /\ ~loader.disabled
    /\ loader.currentFile # Null /\ loader.headerInfo # Null
    /\ loader' = [loader EXCEPT
          !.disabled = TRUE,
          !.segmentReads =
              IF loader.headerBytesRaw = Null THEN @
              ELSE @ \cup {[file |-> loader.currentFile, info |-> loader.headerInfo]}]
    /\ UNCHANGED <<stager, renderer>>
    /\ UNCHANGED <<vvars, cvars, evars, dvars, pvars>>

\* reader.onload of _loadSegment: the mini-EDF is built from the header
\* bytes stored now, the header info and the data read; it parses or throws
SegmentOnload ==
    /\ \E sr \in loader.segmentReads, ok \in BOOLEAN :
          LET rest == [loader EXCEPT !.segmentReads = @ \ {sr}, !.disabled = FALSE]
          IN  loader' =
                 IF ok
                 THEN [rest EXCEPT !.overlay = FALSE, !.currentFile = Null,
                                   !.headerInfo = Null, !.headerBytesRaw = Null,
                                   !.ready = Append(@, [data |-> sr.file, info |-> sr.info,
                                                        headerBytes |-> loader.headerBytesRaw])]
                 ELSE [rest EXCEPT !.cancelled = "segment-decode-failed"]
    /\ UNCHANGED <<stager, renderer>>
    /\ UNCHANGED <<vvars, cvars, evars, dvars, pvars>>

LNext == HandleFile \/ HeaderOnload \/ CancelClick \/ OnSubmit \/ SegmentOnload

SpecLoader == LInit /\ [][LNext]_vars

(***************************************************************************)
(* C29: whenever the overlay is shown or a segment is being read, the      *)
(* stored header (_headerInfo and _headerBytesRaw) was parsed from the     *)
(* file in _currentFile, and a segment is read from the file its header    *)
(* describes: the header read of an earlier file never replaces the        *)
(* header of a later one.                                                  *)
(***************************************************************************)
C29_HeaderBelongsToCurrentFile ==
    loader # << >> =>
        /\ loader.overlay =>
              /\ loader.headerInfo = loader.currentFile
              /\ loader.headerBytesRaw = loader.currentFile
        /\ \A sr \in loader.segmentReads : sr.info = sr.file

\* a segment of a later file was cut with the header of an earlier one
C29_SegmentCutWithEarlierHeader ==
    /\ loader # << >>
    /\ \E sr \in loader.segmentReads : sr.info < sr.file


(***************************************************************************)
(* Hypnogram renders (sleep_bundle.js): the change and click listeners     *)
(* that call renderHypnogramFromSelection, each                            *)
(*   setSectionLoading(section, true); await nextPaint();                  *)
(*   try { await renderHypnogramFromSelection() }                          *)
(*   finally { setSectionLoading(section, false) }                         *)
(* The checked channels and the chosen model are a version number that     *)
(* every change raises; a drawing is named by the version it was staged    *)
(* from and by whether it was smoothed.                                    *)
(***************************************************************************)
MaxRenders == 3      \* renders triggered

Triggers == {"checkbox", "selector", "hmm", "refresh"}

Blank == [drawn |-> FALSE, inputs |-> 0, hmm |-> FALSE]
Drawing(inputs, hmm) == [drawn |-> TRUE, inputs |-> inputs, hmm |-> hmm]

RInit ==
    /\ \E h \in BOOLEAN :
          renderer = [inputs |-> 0, hmm |-> h, triggered |-> 0,
                      renders |-> [r \in 1..MaxRenders |-> [pc |-> "idle", inputs |-> 0]],
                      canvas |-> Blank, overlay |-> FALSE]
    /\ stager = << >> /\ loader = << >>
    /\ VIdle /\ CIdle /\ EIdle /\ DIdle /\ PIdle

\* a listener up to its await nextPaint(): the control has changed and the
\* section's overlay is shown
Trigger ==
    /\ renderer.triggered < MaxRenders
    /\ \E kind \in Triggers :
          renderer' = [renderer EXCEPT
              !.triggered = @ + 1,
              !.inputs = IF kind \in {"checkbox", "selector"} THEN @ + 1 ELSE @,
              !.hmm = IF kind = "hmm" THEN ~@ ELSE @,
              !.overlay = TRUE,
              !.renders[renderer.triggered + 1].pc = "paint"]
    /\ UNCHANGED <<stager, loader>>
    /\ UNCHANGED <<vvars, cvars, evars, dvars, pvars>>

\* renderHypnogramFromSelection up to the await of the staging run: the
\* canvas is cleared, the checked channels and the model are read.  The
\* animation frames resolve in the order they were requested.
StartRender ==
    /\ \E r \in 1..MaxRenders :
          /\ renderer.renders[r].pc = "paint"
          /\ \A q \in 1..(r - 1) : renderer.renders[q].pc # "paint"
          /\ renderer' = [renderer EXCEPT
                !.canvas = Blank,
                !.renders[r] = [pc |-> "staging", inputs |-> renderer.inputs]]
    /\ UNCHANGED <<stager, loader>>
    /\ UNCHANGED <<vvars, cvars, evars, dvars, pvars>>

\* the staging run of any render in flight resolves: the HMM box is read,
\* the stages are drawn, and finally the overlay is hidden
FinishRender ==
    /\ \E r \in 1..MaxRenders :
          /\ renderer.renders[r].pc = "staging"
          /\ renderer' = [renderer EXCEPT
                !.canvas = Drawing(renderer.renders[r].inputs, renderer.hmm),
                !.overlay = FALSE,
                !.renders[r].pc = "done"]
    /\ UNCHANGED <<stager, loader>>
    /\ UNCHANGED <<vvars, cvars, evars, dvars, pvars>>

RNext == Trigger \/ StartRender \/ FinishRender

SpecRenderer == RInit /\ [][RNext]_vars

(***************************************************************************)
(* C30: once every render that was triggered has completed, the canvas     *)
(* shows the stages of the most recently triggered render (staged from the *)
(* channels and model chosen then, smoothed as the HMM box says), and the  *)
(* loading overlay is shown as long as a render is in flight.              *)
(***************************************************************************)
InFlight == {r \in 1..MaxRenders : renderer.renders[r].pc \in {"paint", "staging"}}

AllCompleted ==
    /\ renderer.triggered > 0
    /\ \A r \in 1..renderer.triggered : renderer.renders[r].pc = "done"

C30_CanvasShowsLatestRender ==
    (renderer # << >> /\ AllCompleted) =>
        renderer.canvas = Drawing(renderer.inputs, renderer.hmm)

C30_OverlayWhileInFlight ==
    (renderer # << >> /\ InFlight # {}) => renderer.overlay

C30_LatestRenderShownOverlayKept ==
    C30_CanvasShowsLatestRender /\ C30_OverlayWhileInFlight

====
